---- MODULE Spec2Model ----
(***************************************************************************)
(* Verification model of the openpalace core: the compressed Bloom filter  *)
(* (palace/core/bloom_filter.py), the graph store (palace/core/            *)
(* hippocampus.py), the ingestion pipeline (palace/ingest/pipeline.py),    *)
(* the import resolver (palace/ingest/resolver.py) and the agent query     *)
(* interface (palace/core/agent_interface.py, mcp_server/tools/query.py).  *)
(*                                                                         *)
(* Strings are modelled by integers: an artifact id by the digest prefix   *)
(* it is built from, a path by its index.  Hash values are kept small      *)
(* because TLC integers are 32-bit signed.                                 *)
(***************************************************************************)
EXTENDS Integers, Sequences, FiniteSets, TLC

VARIABLES
    bit_array,    \* CompressedBloomFilter.bit_array: byte index -> set of set bit indexes
    items,        \* CompressedBloomFilter._items
    artifacts,    \* rows of the Artifact node table
    invariants,   \* primary keys of the Invariant node table
    depends,      \* DEPENDS_ON rel table: <<src, dst>> -> number of parallel edges
    constrains,   \* CONSTRAINS rel table: <<invariant, artifact>> -> number of edges
    res,          \* outcome of the last API call (return value or raised error, with its effects)
    pending,      \* calls in flight: one record per caller, with its position and locals
    disk,         \* the Bloom filter snapshot file written by save()
    fingerprint_cache, \* ASTFingerprintCache._cache: artifact id -> fingerprint
    artifact_cache,    \* ImportPathResolver._artifact_cache: path -> artifact id
    related,           \* RELATED_TO rel table: <<src, dst>> -> weight (in hundredths)
    dictionary         \* CodePatternDictionary: what learn_from_code added to the defaults

vars == <<bit_array, items, artifacts, invariants, depends, constrains, res,
          pending, disk, fingerprint_cache, artifact_cache, related, dictionary>>

(***************************************************************************)
(* Bounds of the model.                                                    *)
(***************************************************************************)
NContents == 2        \* distinct file contents
NPaths == 2           \* distinct file paths
MaxBatch == 2         \* longest list handed to add_batch, largest batch_size
MaxEdges == 2         \* edges of one type the store holds
MaxDepthInput == 6    \* largest max_depth a caller passes

Contents == 1..NContents
Paths == 1..NPaths

(***************************************************************************)
(* CompressedBloomFilter                                                   *)
(***************************************************************************)
\* self.size_bits and self.num_hashes for CompressedBloomFilter(expected_items=2,
\* false_positive_rate=0.1): int(-2*ln(0.1)/ln(2)^2) = 9, int((9/2)*ln(2)) = 3.
SizeBits == 9
NumHashes == 3
SizeBytes == (SizeBits + 7) \div 8

\* hash_seeds: one deterministic seed per hash function.
hash_seeds == [i \in 1..NumHashes |-> 11 * i + 2]

\* mmh3.hash(item, seed, signed=False): a deterministic mixing of item and seed.
Mmh3(item, seed) == ((item + 3) * (seed + 5) + (item + 1) * (item + 7) * seed) % 65536

\* _hashes of a filter with the given seeds and size: one position per seed
Positions(item, seeds, size_bits) == [i \in 1..Len(seeds) |-> Mmh3(item, seeds[i]) % size_bits]

\* _hashes: the k bit positions of an item, in seed order.
Hashes(item) == Positions(item, hash_seeds, SizeBits)

\* A faulty variant of OrBit: the byte is assigned instead of or-ed.
OrBitAssign(arr, pos) == [arr EXCEPT ![pos \div 8] = {pos % 8}]

\* bit_array[byte_idx] |= (1 << bit_idx)
OrBit(arr, pos) == [arr EXCEPT ![pos \div 8] = @ \cup {pos % 8}]

RECURSIVE SetPositions(_, _)
\* the loop of add over the positions
SetPositions(arr, positions) ==
    IF positions = <<>> THEN arr
    ELSE SetPositions(OrBit(arr, Head(positions)), Tail(positions))

\* add's effect on the bit array
AddBits(arr, item) == SetPositions(arr, Hashes(item))

\* contains: every one of the k bits is set
Contains(arr, item) ==
    \A i \in 1..NumHashes :
        LET pos == Hashes(item)[i] IN (pos % 8) \in arr[pos \div 8]

RECURSIVE AddAll(_, _)
\* add_batch's loop over the items
AddAll(arr, list) ==
    IF list = <<>> THEN arr ELSE AddAll(AddBits(arr, Head(list)), Tail(list))

Range(f) == {f[i] : i \in DOMAIN f}

(***************************************************************************)
(* Identifiers                                                             *)
(***************************************************************************)
\* hashlib.sha256(content.encode()).hexdigest(): distinct contents, distinct digests
ContentHash(content) == 10 + content
\* f"artifact-{content_hash[:16]}"
ArtifactId(content) == ContentHash(content)
\* LIMIT 50 of the traversal query in _get_dependencies
DepLimit == 50
\* the empty string given as an artifact id
EmptyId == 0
IngestIds == {ArtifactId(c) : c \in Contents}
\* an id no ingested content hashes to
ExtraId == ArtifactId(NContents) + 1
Ids == IngestIds \cup {ExtraId}
BloomItems == Ids \cup {EmptyId}

NoResult == [op |-> "none"]

NoSnapshot == [stored |-> FALSE]

\* CodePatternDictionary.DEFAULT_PATTERNS, each pattern as its characters
DefaultPatterns ==
    << <<"d", "e", "f", " ">>,
       <<"c", "l", "a", "s", "s", " ">>,
       <<"i", "m", "p", "o", "r", "t", " ">>,
       <<"f", "r", "o", "m", " ">>,
       <<"r", "e", "t", "u", "r", "n", " ">>,
       <<"s", "e", "l", "f", ".">>,
       <<"N", "o", "n", "e">>,
       <<"T", "r", "u", "e">>,
       <<"F", "a", "l", "s", "e">>,
       <<"i", "f", " ">>,
       <<"e", "l", "s", "e", ":">>,
       <<"e", "l", "i", "f", " ">>,
       <<"f", "o", "r", " ">>,
       <<"w", "h", "i", "l", "e", " ">>,
       <<"w", "i", "t", "h", " ">>,
       <<"t", "r", "y", ":">>,
       <<"e", "x", "c", "e", "p", "t", " ">>,
       <<"r", "a", "i", "s", "e", " ">>,
       <<"a", "s", "s", "e", "r", "t", " ">>,
       <<"p", "a", "s", "s">>,
       <<"b", "r", "e", "a", "k">>,
       <<"c", "o", "n", "t", "i", "n", "u", "e">>,
       <<"a", "s", "y", "n", "c", " ", "d", "e", "f">>,
       <<"a", "w", "a", "i", "t", " ">> >>

DefaultFrequency == 1000
MaxEntries == 256

\* CodePatternDictionary(): _initialize_defaults gives pattern i (from 0) the
\* code i + 1, so patterns[c] is the pattern whose code is c
NewDictionary ==
    [patterns |-> SubSeq(DefaultPatterns, 1, IF Len(DefaultPatterns) < MaxEntries
                                               THEN Len(DefaultPatterns) ELSE MaxEntries),
     frequencies |-> [i \in 1..Len(DefaultPatterns) |->
                          [pattern |-> DefaultPatterns[i], count |-> DefaultFrequency]]]

\* the dictionary variable of a new dictionary: no pattern learned, no
\* n-gram counted, no default pattern counted beyond its initial frequency
NoLearning == [learned |-> <<>>, counted |-> <<>>, defaults |-> [i \in {} |-> 0]]

\* self.patterns / self.reverse_patterns: patterns[c] has the code c
Patterns(d) == NewDictionary.patterns \o d.learned

\* self.frequencies, in insertion order
Frequencies(d) ==
    [i \in DOMAIN NewDictionary.frequencies |->
         IF i \in DOMAIN d.defaults
         THEN [NewDictionary.frequencies[i] EXCEPT !.count = @ + d.defaults[i]]
         ELSE NewDictionary.frequencies[i]]
    \o d.counted

Init ==
    /\ bit_array = [b \in 0..(SizeBytes - 1) |-> {}]
    /\ items = {}
    /\ artifacts = {}
    /\ invariants = {}
    /\ depends = [e \in {} |-> 0]
    /\ constrains = [e \in {} |-> 0]
    /\ res = NoResult
    /\ pending = <<>>
    /\ disk = NoSnapshot
    /\ fingerprint_cache = [e \in {} |-> 0]
    /\ artifact_cache = [e \in {} |-> 0]
    /\ related = [e \in {} |-> 0]
    /\ dictionary = NoLearning

(***************************************************************************)
(* Parser output for the model's file contents (the external parser).      *)
(* Contents 2k-1 and 2k have the same syntax tree and differ in            *)
(* identifiers only; content 1 imports nothing, every other content        *)
(* imports one module of the repository, one module of the standard        *)
(* library and one module that is nowhere on disk; every content but the   *)
(* first trips the checker of rule 1.                                      *)
(***************************************************************************)
\* the file that has no registered parser (ParserRegistry.get_parser gives None)
UnsupportedPath == 0
AllPaths == Paths \cup {UnsupportedPath}
\* file_path.read_text() fails: the file is not there
NoFile == 0

\* parser.compute_fingerprint(content)
Fingerprint(content) == 20 + ((content + 1) \div 2)

\* parser.parse_dependencies(file_path, content)
ParseDependencies(content) ==
    IF content = 1 THEN <<>>
    ELSE << [kind |-> "module", path |-> ((content - 2) % NPaths) + 1],
            [kind |-> "stdlib", path |-> UnsupportedPath],
            [kind |-> "missing", path |-> UnsupportedPath] >>

\* len(parser.extract_symbols(content))
SymbolCount(content) == content

\* the rules of invariant_detector.detect_from_file(...)
Violations(content) == IF content >= 2 THEN <<1>> ELSE <<>>

\* f"invariant-{md5(rule)}"
InvariantId(rule) == 30 + rule

(***************************************************************************)
(* Hippocampus: the graph store                                            *)
(***************************************************************************)
NodeIds(arts) == {n.id : n \in arts}

\* get_node(node_id): the row, or None
GetNode(arts, id) ==
    IF \E n \in arts : n.id = id THEN CHOOSE n \in arts : n.id = id ELSE [id |-> -1]
IsNone(node) == node.id = -1

\* CREATE on a node table raises when the primary key is already there
\* (PRIMARY KEY (id) of the table's schema).
PrimaryKeyTaken(keys, id) == id \in keys

TotalEdges(bag) ==
    LET RECURSIVE Sum(_)
        Sum(S) == IF S = {} THEN 0
                  ELSE LET e == CHOOSE x \in S : TRUE IN bag[e] + Sum(S \ {e})
    IN Sum(DOMAIN bag)

\* CREATE (src)-[r]->(dst): one more row in the rel table
AddEdge(bag, e) ==
    IF e \in DOMAIN bag THEN [bag EXCEPT ![e] = @ + 1] ELSE bag @@ (e :> 1)

\* A faulty variant of CreateEdgeRows: the edge is created without matching its ends.
CreateEdgeUnmatched(bag, src, dst, nodeIds) == AddEdge(bag, <<src, dst>>)

\* create_edge: MATCH (src), (dst) WHERE src.id = .. AND dst.id = .. CREATE ..
\* creates one edge when both nodes are matched and nothing otherwise.
CreateEdgeRows(bag, src, dst, nodeIds) ==
    IF src \in nodeIds /\ dst \in nodeIds THEN AddEdge(bag, <<src, dst>>) ELSE bag

(***************************************************************************)
(* BigBangPipeline                                                         *)
(***************************************************************************)
\* the properties ingest_file gives the Artifact node
ArtifactProps(path, content) ==
    [id |-> ArtifactId(content), path |-> path, content_hash |-> ContentHash(content),
     language |-> "python", ast_fingerprint |-> Fingerprint(content)]

RECURSIVE StoreViolations(_, _, _, _, _)
\* the loop of ingest_file over the violations: an Invariant node, then its
\* CONSTRAINS edge; a duplicate Invariant key raises out of ingest_file.
StoreViolations(rules, artifact_id, arts, invs, cons) ==
    IF rules = <<>> THEN [raised |-> FALSE, invariants |-> invs, constrains |-> cons]
    ELSE LET inv == InvariantId(Head(rules)) IN
         IF PrimaryKeyTaken(invs, inv)
         THEN [raised |-> TRUE, invariants |-> invs, constrains |-> cons]
         ELSE StoreViolations(Tail(rules), artifact_id, arts, invs \cup {inv},
                  CreateEdgeRows(cons, inv, artifact_id, NodeIds(arts) \cup invs \cup {inv}))

\* ingest_file(file_path) when the file holds `content` (concept_extractor=None,
\* as the CLI builds the pipeline): the store it leaves and what the caller gets.
IngestFileOutcome(path, content) ==
    LET base == [artifacts |-> artifacts, invariants |-> invariants,
                 constrains |-> constrains,
                 dependencies |-> 0, symbols |-> 0, violations |-> 0]
    IN
    IF content = NoFile THEN base @@ [status |-> "raised"]
    ELSE IF path = UnsupportedPath THEN base @@ [status |-> "skipped"]
    ELSE IF PrimaryKeyTaken(NodeIds(artifacts), ArtifactId(content))
    THEN base @@ [status |-> "raised"]
    ELSE LET arts == artifacts \cup {ArtifactProps(path, content)}
             v == StoreViolations(Violations(content), ArtifactId(content), arts,
                                  invariants, constrains)
         IN IF v.raised
            THEN [base EXCEPT !.artifacts = arts, !.invariants = v.invariants,
                              !.constrains = v.constrains] @@ [status |-> "raised"]
            ELSE [artifacts |-> arts, invariants |-> v.invariants,
                  constrains |-> v.constrains,
                  dependencies |-> Len(ParseDependencies(content)),
                  symbols |-> SymbolCount(content),
                  violations |-> Len(Violations(content)),
                  status |-> "success"]

\* BigBangPipeline.ingest_file
IngestFile(path, content) ==
    \E o \in {IngestFileOutcome(path, content)} :
    /\ artifacts' = o.artifacts
    /\ invariants' = o.invariants
    /\ constrains' = o.constrains
    /\ res' = [op |-> "ingest_file", path |-> path, content |-> content, status |-> o.status,
               dependencies |-> o.dependencies, symbols |-> o.symbols,
               violations |-> o.violations]
    /\ UNCHANGED <<dictionary, artifact_cache, related, pending, disk, fingerprint_cache, bit_array, items, depends>>

RECURSIVE CreateNodesBatch(_, _)
\* create_nodes_batch: a row whose key is taken is skipped
CreateNodesBatch(rows, nodes) ==
    IF nodes = <<>> THEN rows
    ELSE CreateNodesBatch(
             IF PrimaryKeyTaken(NodeIds(rows), Head(nodes).id) THEN rows
             ELSE rows \cup {Head(nodes)},
             Tail(nodes))

RECURSIVE CreateKeysBatch(_, _)
\* create_nodes_batch on the Invariant table (the key is all the model keeps)
CreateKeysBatch(keys, new) ==
    IF new = <<>> THEN keys
    ELSE CreateKeysBatch(IF PrimaryKeyTaken(keys, Head(new)) THEN keys
                         ELSE keys \cup {Head(new)}, Tail(new))

RECURSIVE CreateEdgesBatch(_, _, _)
\* create_edges_batch: create_edge for each queued edge
CreateEdgesBatch(bag, edges, nodeIds) ==
    IF edges = <<>> THEN bag
    ELSE CreateEdgesBatch(CreateEdgeRows(bag, Head(edges)[1], Head(edges)[2], nodeIds),
                          Tail(edges), nodeIds)

EmptyBatch == [artifacts |-> <<>>, invariants |-> <<>>, invariant_edges |-> <<>>]
ZeroStats == [processed |-> 0, artifacts |-> 0, concepts |-> 0, edges |-> 0, errors |-> 0]

\* _commit_batch: nodes, then edges; the statistics count what was queued
CommitBatch(st) ==
    LET arts == CreateNodesBatch(st.artifacts, st.batch.artifacts)
        invs == CreateKeysBatch(st.invariants, st.batch.invariants)
        cons == CreateEdgesBatch(st.constrains, st.batch.invariant_edges,
                                 NodeIds(arts) \cup invs)
    IN [st EXCEPT !.artifacts = arts, !.invariants = invs, !.constrains = cons,
                  !.stats.artifacts = @ + Len(st.batch.artifacts),
                  !.stats.edges = @ + Len(st.batch.invariant_edges),
                  !.batch = EmptyBatch]

RECURSIVE QueueViolations(_, _, _)
QueueViolations(batch, rules, artifact_id) ==
    IF rules = <<>> THEN batch
    ELSE QueueViolations(
             [batch EXCEPT !.invariants = Append(@, InvariantId(Head(rules))),
                           !.invariant_edges = Append(@, <<InvariantId(Head(rules)), artifact_id>>)],
             Tail(rules), artifact_id)

\* one iteration of ingest_batch's loop over file_paths
BatchStep(st, file, batch_size) ==
    IF file.content = NoFile THEN [st EXCEPT !.stats.errors = @ + 1]
    ELSE IF file.path = UnsupportedPath THEN st
    ELSE LET queued == QueueViolations(
                          [st.batch EXCEPT !.artifacts =
                               Append(@, ArtifactProps(file.path, file.content))],
                          Violations(file.content), ArtifactId(file.content))
             counted == [st EXCEPT !.batch = queued, !.stats.processed = @ + 1]
         IN IF Len(queued.artifacts) >= batch_size THEN CommitBatch(counted) ELSE counted

RECURSIVE BatchLoop(_, _, _)
BatchLoop(st, files, batch_size) ==
    IF files = <<>> THEN st
    ELSE BatchLoop(BatchStep(st, Head(files), batch_size), Tail(files), batch_size)

\* ingest_batch(file_paths, batch_size): the loop, then the commit of what is left
IngestBatchOutcome(files, batch_size) ==
    LET start == [artifacts |-> artifacts, invariants |-> invariants,
                  constrains |-> constrains, stats |-> ZeroStats, batch |-> EmptyBatch]
        looped == BatchLoop(start, files, batch_size)
    IN IF files = <<>> THEN start
       ELSE IF looped.batch.artifacts # <<>> THEN CommitBatch(looped) ELSE looped

\* BigBangPipeline.ingest_batch
IngestBatch(files, batch_size) ==
    \E o \in {IngestBatchOutcome(files, batch_size)} :
    /\ TotalEdges(o.constrains) <= MaxEdges
    /\ artifacts' = o.artifacts
    /\ invariants' = o.invariants
    /\ constrains' = o.constrains
    /\ res' = [op |-> "ingest_batch", files |-> Len(files), stats |-> o.stats]
    /\ UNCHANGED <<dictionary, artifact_cache, related, pending, disk, fingerprint_cache, bit_array, items, depends>>

(***************************************************************************)
(* Bloom filter operations                                                 *)
(***************************************************************************)
\* CompressedBloomFilter.add(item)
BloomAdd(item) ==
    /\ bit_array' = AddBits(bit_array, item)
    /\ items' = items \cup {item}
    /\ res' = [op |-> "add", item |-> item]
    /\ UNCHANGED <<dictionary, artifact_cache, related, pending, disk, fingerprint_cache, artifacts, invariants, depends, constrains>>

\* CompressedBloomFilter.add_batch(list)
BloomAddBatch(list) ==
    /\ bit_array' = AddAll(bit_array, list)
    /\ items' = items \cup Range(list)
    /\ res' = [op |-> "add_batch", list |-> list]
    /\ UNCHANGED <<dictionary, artifact_cache, related, pending, disk, fingerprint_cache, artifacts, invariants, depends, constrains>>

\* CompressedBloomFilter.contains_batch(list)
BloomContainsBatch(list) ==
    /\ res' = [op |-> "contains_batch", list |-> list,
               hits |-> [i \in DOMAIN list |-> Contains(bit_array, list[i])]]
    /\ UNCHANGED <<dictionary, artifact_cache, related, pending, disk, fingerprint_cache, bit_array, items, artifacts, invariants, depends, constrains>>

\* the elements of a set of ids, in ascending order
SortedSeq(S) ==
    IF S = {} THEN <<>>
    ELSE LET lo == CHOOSE x \in S : \A y \in S : x <= y
             hi == CHOOSE x \in S : \A y \in S : y <= x
         IN SelectSeq([i \in 1..(hi - lo + 1) |-> lo + i - 1], LAMBDA x : x \in S)

(***************************************************************************)
(* Hippocampus operations called by a driver                               *)
(***************************************************************************)
\* Hippocampus.create_node("Artifact", props)
CreateNode(props) ==
    /\ artifacts' = IF PrimaryKeyTaken(NodeIds(artifacts), props.id) THEN artifacts
                    ELSE artifacts \cup {props}
    /\ res' = [op |-> "create_node", id |-> props.id,
               status |-> IF PrimaryKeyTaken(NodeIds(artifacts), props.id)
                          THEN "raised" ELSE "created"]
    /\ UNCHANGED <<dictionary, artifact_cache, related, pending, disk, fingerprint_cache, bit_array, items, invariants, depends, constrains>>

\* Hippocampus.create_edge(src, dst, "DEPENDS_ON", {})
CreateEdge(src, dst) ==
    /\ TotalEdges(depends) < MaxEdges
    /\ depends' = CreateEdgeRows(depends, src, dst, NodeIds(artifacts))
    /\ res' = [op |-> "create_edge", src |-> src, dst |-> dst, status |-> "returned"]
    /\ UNCHANGED <<dictionary, artifact_cache, related, pending, disk, fingerprint_cache, bit_array, items, artifacts, invariants, constrains>>

(***************************************************************************)
(* AgentQueryInterface                                                     *)
(***************************************************************************)
\* the nodes one DEPENDS_ON edge away from n
Successors(bag, n) == {e[2] : e \in {d \in DOMAIN bag : d[1] = n}}

RECURSIVE Level(_, _, _)
\* the ends of the DEPENDS_ON paths of exactly k edges that start at a
Level(bag, a, k) ==
    IF k = 0 THEN {a}
    ELSE UNION {Successors(bag, y) : y \in Level(bag, a, k - 1)}

RECURSIVE MatchRows(_, _, _, _)
\* MATCH (a:Artifact)-[:DEPENDS_ON*1..d]->(dep:Artifact) WHERE a.id = ..:
\* the dep.id column, a row for every path length at which dep is reached
MatchRows(bag, a, k, d) ==
    IF k > d THEN <<>>
    ELSE SortedSeq(Level(bag, a, k)) \o MatchRows(bag, a, k + 1, d)

\* A faulty variant of Distinct: RETURN dep.id without DISTINCT.
KeepDuplicates(rows) == rows

\* the rows at the positions outside `dropped`, in order
KeepRows(rows, dropped) ==
    LET idx == SelectSeq([i \in 1..Len(rows) |-> i], LAMBDA i : i \notin dropped)
    IN [i \in 1..Len(idx) |-> rows[idx[i]]]

\* RETURN DISTINCT dep.id AS id: a value is kept where it first occurs
Distinct(rows) ==
    KeepRows(rows, {i \in 1..Len(rows) : \E j \in 1..(i - 1) : rows[j] = rows[i]})

RECURSIVE KSubsets(_, _)
\* the subsets of S of k elements
KSubsets(S, k) ==
    IF k = 0 THEN {{}}
    ELSE UNION {{T \cup {x} : T \in KSubsets({y \in S : y > x}, k - 1)} : x \in S}

\* LIMIT 50 without ORDER BY: any 50 of the rows when there are more
Limit(rows) ==
    IF Len(rows) <= DepLimit THEN {rows}
    ELSE {KeepRows(rows, D) : D \in KSubsets(1..Len(rows), Len(rows) - DepLimit)}

\* _get_dependencies(artifact_id, max_depth): the lists the store may return
GetDependencies(bag, a, d) == Limit(Distinct(MatchRows(bag, a, 1, d)))

\* _parse_artifact(node) and ASTSummary.to_toon(): the placeholder summary
Summary(node) == [line |-> "summary", path |-> node.path, language |-> node.language]

\* the "## path" heading and the summary of each dependency
DependencySections(nodes) ==
    [i \in 1..(2 * Len(nodes)) |->
        IF i % 2 = 1 THEN [line |-> "## dependency", path |-> nodes[(i + 1) \div 2].path]
        ELSE Summary(nodes[i \div 2])]

\* TOONEncoder.encode_graph_context(main, dependencies, "DEPENDS_ON")
EncodeGraphContext(main, deps) ==
    << [line |-> "# main", path |-> main.path], Summary(main) >>
    \o (IF deps = <<>> THEN <<>>
        ELSE << [line |-> "# DEPENDS_ON", files |-> Len(deps)] >> \o DependencySections(deps))

\* the loop over the dependency ids: get_node, kept when the node is there
FetchNodes(arts, ids) ==
    LET found == KeepRows(ids, {i \in 1..Len(ids) : IsNone(GetNode(arts, ids[i]))})
    IN [i \in 1..Len(found) |-> GetNode(arts, found[i])]

\* the sections of a bundle that describe a file
Sections(bundle) == SelectSeq(bundle, LAMBDA l : l.line = "summary")

\* what query_artifact hands back; `calls` logs the collaborators it used and
\* `dependencies` the list the traversal gave it
QueryResult(id, include, depth, outcome, bundle, files, hit, deps, calls) ==
    [op |-> "query_artifact", artifact_id |-> id, include_dependencies |-> include,
     max_depth |-> depth, outcome |-> outcome,
     error |-> IF outcome = "raised" THEN "RuntimeError" ELSE "none", toon_format |-> bundle,
     files_parsed |-> files, bloom_hit |-> hit, dependencies_found |-> Len(deps),
     dependencies |-> deps, calls |-> calls]

\* the result of a query whose node was fetched and whose traversal gave deps
FoundResult(id, include, depth, deps, calls) ==
    LET nodes == FetchNodes(artifacts, deps) IN
    QueryResult(id, include, depth, "returned",
                EncodeGraphContext(GetNode(artifacts, id), nodes),
                1 + Len(nodes), TRUE, deps,
                calls \o [i \in 1..Len(deps) |-> "get_node"])

\* A faulty variant of QueryArtifact: the node is fetched before the filter is probed.
QueryArtifactNodeFirst(id, include, depth) ==
    IF IsNone(GetNode(artifacts, id)) \/ ~Contains(bit_array, id)
    THEN {QueryResult(id, include, depth, "returned",
                      << [line |-> "# Artifact not found", id |-> id] >>,
                      0, FALSE, <<>>, <<"get_node", "bloom.contains">>)}
    ELSE {FoundResult(id, include, depth, <<>>, <<"get_node", "bloom.contains">>)}

\* A faulty variant of QueryArtifact: the traversal runs before the node is looked at.
QueryArtifactTraversalFirst(id, include, depth) ==
    IF ~Contains(bit_array, id)
    THEN {QueryResult(id, include, depth, "returned",
                      << [line |-> "# Artifact not found", id |-> id] >>,
                      0, FALSE, <<>>, <<"bloom.contains">>)}
    ELSE IF IsNone(GetNode(artifacts, id))
    THEN {QueryResult(id, include, depth, "returned",
                      << [line |-> "# Artifact node not found", id |-> id] >>,
                      0, TRUE, <<>>, <<"bloom.contains", "execute_cypher", "get_node">>)}
    ELSE {FoundResult(id, include, depth, <<>>,
                      <<"bloom.contains", "execute_cypher", "get_node">>)}

\* AgentQueryInterface.query_artifact(artifact_id, include_dependencies, max_depth):
\* the results it may give in the current state
QueryArtifact(id, include, depth) ==
    IF ~Contains(bit_array, id)
    THEN {QueryResult(id, include, depth, "returned",
                      << [line |-> "# Artifact not found", id |-> id] >>,
                      0, FALSE, <<>>, <<"bloom.contains">>)}
    ELSE IF IsNone(GetNode(artifacts, id))
    THEN {QueryResult(id, include, depth, "returned",
                      << [line |-> "# Artifact node not found", id |-> id] >>,
                      0, TRUE, <<>>, <<"bloom.contains", "get_node">>)}
    ELSE IF ~include
    THEN {FoundResult(id, include, depth, <<>>, <<"bloom.contains", "get_node">>)}
    ELSE IF depth < 1
    THEN \* the store refuses the pattern *1..0 and execute_cypher raises
         {QueryResult(id, include, depth, "raised", <<>>, 0, TRUE, <<>>,
                      <<"bloom.contains", "get_node", "execute_cypher">>)}
    ELSE {FoundResult(id, include, depth, deps,
                      <<"bloom.contains", "get_node", "execute_cypher">>) :
              deps \in GetDependencies(depends, id, depth)}

\* a call of AgentQueryInterface.query_artifact
QueryCore(id, include, depth) ==
    /\ \E r \in QueryArtifact(id, include, depth) : res' = r
    /\ UNCHANGED <<dictionary, artifact_cache, related, pending, disk, fingerprint_cache, bit_array, items, artifacts, invariants, depends, constrains>>

(***************************************************************************)
(* The MCP tool query_artifact                                             *)
(***************************************************************************)
\* the range of max_depth the tool accepts
MinDepth == 1
MaxDepth == 5

McpResult(id, include, depth, outcome, error, text, calls) ==
    [op |-> "mcp_query_artifact", artifact_id |-> id, include_dependencies |-> include,
     max_depth |-> depth, outcome |-> outcome, error |-> error, text |-> text,
     calls |-> calls]

\* the tool's try block around the core query: a Bloom miss is raised as a
\* RuntimeError, and every exception is turned into an error text
McpWrap(r) ==
    IF r.outcome = "raised" \/ ~r.bloom_hit
    THEN McpResult(r.artifact_id, r.include_dependencies, r.max_depth, "returned", "none",
                   << [line |-> "# Error querying artifact", id |-> r.artifact_id] >>, r.calls)
    ELSE McpResult(r.artifact_id, r.include_dependencies, r.max_depth, "returned", "none",
                   r.toon_format, r.calls)

\* mcp_server.tools.query.query_artifact(artifact_id, include_dependencies, max_depth)
McpQueryArtifact(id, include, depth) ==
    IF id = EmptyId
    THEN {McpResult(id, include, depth, "raised", "ValueError", <<>>, <<>>)}
    ELSE IF depth < MinDepth \/ depth > MaxDepth
    THEN {McpResult(id, include, depth, "raised", "ValueError", <<>>, <<>>)}
    ELSE {McpWrap(r) : r \in QueryArtifact(id, include, depth)}

\* a call of the MCP tool
McpQuery(id, include, depth) ==
    /\ \E r \in McpQueryArtifact(id, include, depth) : res' = r
    /\ UNCHANGED <<dictionary, artifact_cache, related, pending, disk, fingerprint_cache, bit_array, items, artifacts, invariants, depends, constrains>>

(***************************************************************************)
(* ImportPathResolver                                                      *)
(***************************************************************************)
\* resolve(import_path, importing_file, language) for each import of a file:
\* the artifact ids the imports resolve to. A module of the repository resolves
\* to an artifact stored under its path (MATCH .. WHERE a.path = $path); a
\* standard-library import is external and a missing module is unresolved.
ResolvedTargets(content, arts) ==
    {n.id : n \in {a \in arts : \E i \in DOMAIN ParseDependencies(content) :
                                   /\ ParseDependencies(content)[i].kind = "module"
                                   /\ ParseDependencies(content)[i].path = a.path}}

(***************************************************************************)
(* Drivers: the calls made on the program and the values they pass         *)
(***************************************************************************)
\* the properties a driver gives the Artifact node it creates for `id`
NodeProps(id) ==
    [id |-> id, path |-> (id % NPaths) + 1, content_hash |-> id,
     language |-> "python", ast_fingerprint |-> 20 + (id \div 2)]

\* max_depth when the caller passes none
DefaultDepth == 2

Files == [path : Paths, content : Contents] \cup {[path |-> UnsupportedPath, content |-> NoFile]}
FileLists == {<<>>} \cup {<<f>> : f \in Files} \cup {<<f, g>> : f \in Files, g \in Files}

\* ingestion through the pipeline, and queries with the default arguments
IngestNext ==
    \/ \E path \in AllPaths, content \in Contents \cup {NoFile} : IngestFile(path, content)
    \/ \E files \in FileLists, batch_size \in 1..MaxBatch : IngestBatch(files, batch_size)
    \/ \E id \in IngestIds : QueryCore(id, TRUE, DefaultDepth)

SpecIngest == Init /\ [][IngestNext]_vars

\* nodes and filter entries written one at a time, and queries of either layer
\* with every argument a caller may pass
ProbeNext ==
    \/ \E id \in IngestIds : CreateNode(NodeProps(id))
    \/ \E item \in BloomItems : BloomAdd(item)
    \/ \E id \in BloomItems, include \in BOOLEAN, depth \in 0..MaxDepthInput :
           QueryCore(id, include, depth)
    \/ \E id \in BloomItems, include \in BOOLEAN, depth \in 0..MaxDepthInput :
           McpQuery(id, include, depth)

SpecProbe == Init /\ [][ProbeNext]_vars

\* The graphs queried for their dependencies: a graph over the ids Ids that
\* grows from the empty store up to MaxEdges edges, or a hub that create_node
\* and create_edge have given n direct dependencies, n around the number the
\* traversal returns. The filter is filled with the ids in one add_batch.
FanHub == ExtraId + 1
FanSizes == (DepLimit - 1)..(DepLimit + 1)
FanNodes(n) == {NodeProps(FanHub + k) : k \in 0..n}
FanEdges(n) == [e \in {<<FanHub, FanHub + k>> : k \in 1..n} |-> 1]
IsFan == \E n \in artifacts : n.id = FanHub

TraverseInit ==
    /\ bit_array = [b \in 0..(SizeBytes - 1) |-> {}]
    /\ items = {}
    /\ invariants = {}
    /\ constrains = [e \in {} |-> 0]
    /\ res = NoResult
    /\ pending = <<>>
    /\ disk = NoSnapshot
    /\ fingerprint_cache = [e \in {} |-> 0]
    /\ artifact_cache = [e \in {} |-> 0]
    /\ related = [e \in {} |-> 0]
    /\ dictionary = NoLearning
    /\ \/ artifacts = {} /\ depends = [e \in {} |-> 0]
       \/ \E n \in FanSizes : artifacts = FanNodes(n) /\ depends = FanEdges(n)

TraverseNext ==
    \/ \E id \in Ids : ~IsFan /\ CreateNode(NodeProps(id))
    \/ \E src \in Ids, dst \in Ids : ~IsFan /\ CreateEdge(src, dst)
    \/ \E list \in {SortedSeq(Ids \cup {FanHub})} : BloomAddBatch(list)
    \/ \E id \in Ids \cup {FanHub}, depth \in MinDepth..MaxDepth : QueryCore(id, TRUE, depth)

SpecTraverse == TraverseInit /\ [][TraverseNext]_vars

BatchLists == UNION {[1..n -> BloomItems] : n \in 0..MaxBatch}

BloomNext ==
    \/ \E item \in BloomItems : BloomAdd(item)
    \/ \E list \in BatchLists : BloomAddBatch(list)
    \/ \E list \in BatchLists : BloomContainsBatch(list)

SpecBloom == Init /\ [][BloomNext]_vars

(***************************************************************************)
(* query_artifact statement by statement, with writers in between.  Each   *)
(* store statement (get_node, execute_cypher) is one step; what the call   *)
(* computes between two statements belongs to the earlier step.            *)
(***************************************************************************)
\* the locals of a query_artifact call that has fetched its node
QueryTask(pc, id, depth, main, deps, next, nodes) ==
    [pc |-> pc, artifact_id |-> id, max_depth |-> depth, artifact_node |-> main,
     dependencies |-> deps, next |-> next, dependency_nodes |-> nodes]

\* the return of a query_artifact call whose dependency loop has ended
TaskResult(id, depth, main, deps, nodes) ==
    QueryResult(id, TRUE, depth, "returned", EncodeGraphContext(main, nodes),
                1 + Len(nodes), TRUE, deps,
                <<"bloom.contains", "get_node", "execute_cypher">>
                    \o [i \in 1..Len(deps) |-> "get_node"])

\* query_artifact(id, True, depth) up to and including get_node(id)
QueryBegin(id, depth) ==
    /\ pending = <<>>
    /\ IF ~Contains(bit_array, id) \/ IsNone(GetNode(artifacts, id))
       THEN /\ res' \in QueryArtifact(id, TRUE, depth)
            /\ pending' = pending
       ELSE /\ pending' = << QueryTask("traverse", id, depth, GetNode(artifacts, id),
                                       <<>>, 1, <<>>) >>
            /\ res' = res
    /\ UNCHANGED <<dictionary, artifact_cache, related, disk, fingerprint_cache, bit_array, items, artifacts, invariants,
                   depends, constrains>>

\* _get_dependencies(id, depth): the traversal statement
QueryTraverse ==
    /\ pending # <<>>
    /\ pending[1].pc = "traverse"
    /\ \E deps \in GetDependencies(depends, pending[1].artifact_id, pending[1].max_depth) :
          IF deps = <<>>
          THEN /\ res' = TaskResult(pending[1].artifact_id, pending[1].max_depth,
                                    pending[1].artifact_node, deps, <<>>)
               /\ pending' = <<>>
          ELSE /\ pending' = << [pending[1] EXCEPT !.pc = "fetch", !.dependencies = deps] >>
               /\ res' = res
    /\ UNCHANGED <<dictionary, artifact_cache, related, disk, fingerprint_cache, bit_array, items, artifacts, invariants,
                   depends, constrains>>

\* one turn of the loop over the dependency ids: get_node(dep_id), kept when
\* the node is there; after the last turn the call returns
QueryFetch ==
    /\ pending # <<>>
    /\ pending[1].pc = "fetch"
    /\ LET t == pending[1]
           dep_node == GetNode(artifacts, t.dependencies[t.next])
           nodes == IF IsNone(dep_node) THEN t.dependency_nodes
                    ELSE Append(t.dependency_nodes, dep_node)
       IN IF t.next = Len(t.dependencies)
          THEN /\ res' = TaskResult(t.artifact_id, t.max_depth, t.artifact_node,
                                    t.dependencies, nodes)
               /\ pending' = <<>>
          ELSE /\ pending' = << [t EXCEPT !.next = t.next + 1, !.dependency_nodes = nodes] >>
               /\ res' = res
    /\ UNCHANGED <<dictionary, artifact_cache, related, disk, fingerprint_cache, bit_array, items, artifacts, invariants,
                   depends, constrains>>

\* delete of an artifact (Hippocampus.delete_node, called by the indexing tools):
\* the node goes, with the DEPENDS_ON edges that leave it; the edges that
\* point at it stay
DeleteNode(id) ==
    /\ id \in NodeIds(artifacts)
    /\ artifacts' = {n \in artifacts : n.id # id}
    /\ depends' = [e \in {d \in DOMAIN depends : d[1] # id} |-> depends[e]]
    /\ res' = [op |-> "delete_node", id |-> id]
    /\ UNCHANGED <<dictionary, artifact_cache, related, pending, disk, fingerprint_cache, bit_array, items, invariants, constrains>>

InterleaveNext ==
    \/ \E id \in IngestIds : CreateNode(NodeProps(id))
    \/ \E src \in IngestIds, dst \in IngestIds : CreateEdge(src, dst)
    \/ \E id \in IngestIds : DeleteNode(id)
    \/ \E list \in {SortedSeq(IngestIds)} : BloomAddBatch(list)
    \/ \E id \in IngestIds, depth \in MinDepth..DefaultDepth : QueryBegin(id, depth)
    \/ QueryTraverse
    \/ QueryFetch

SpecInterleave == Init /\ [][InterleaveNext]_vars

(***************************************************************************)
(* The other queries of AgentQueryInterface, and the fingerprint cache     *)
(***************************************************************************)
\* find_similar_artifacts: default of limit
DefaultLimit == 10
\* largest limit the model passes to find_similar_artifacts
MaxLimit == 2

\* a node stored without a fingerprint ("" is falsy)
EmptyFingerprint == 0

\* ASTFingerprintCache.set(file_path, fingerprint)
CacheSet(file_path, fingerprint) ==
    /\ fingerprint_cache' = [k \in DOMAIN fingerprint_cache \cup {file_path} |->
                                IF k = file_path THEN fingerprint ELSE fingerprint_cache[k]]
    /\ res' = [op |-> "cache.set", file_path |-> file_path]
    /\ UNCHANGED <<dictionary, artifact_cache, related, pending, disk, bit_array, items, artifacts, invariants, depends, constrains>>

\* query_multiple_artifacts(artifact_ids, include_dependencies): one
\* query_artifact per id, keyed by id
QueryMultipleArtifacts(artifact_ids, include) ==
    /\ \E results \in [Range(artifact_ids) ->
                          UNION {QueryArtifact(i, include, DefaultDepth) : i \in Range(artifact_ids)}] :
          /\ \A i \in Range(artifact_ids) : results[i] \in QueryArtifact(i, include, DefaultDepth)
          /\ res' = [op |-> "query_multiple_artifacts", artifact_ids |-> artifact_ids,
                     results |-> results]
    /\ UNCHANGED <<dictionary, artifact_cache, related, pending, disk, fingerprint_cache, bit_array, items, artifacts, invariants,
                   depends, constrains>>

\* explain_artifact(artifact_id): the query's counts and bundle under a header
ExplainArtifact(id) ==
    /\ \E r \in QueryArtifact(id, TRUE, DefaultDepth) :
          res' = [op |-> "explain_artifact", artifact_id |-> id,
                  files_parsed |-> r.files_parsed,
                  dependencies_found |-> r.dependencies_found,
                  toon_format |-> r.toon_format]
    /\ UNCHANGED <<dictionary, artifact_cache, related, pending, disk, fingerprint_cache, bit_array, items, artifacts, invariants,
                   depends, constrains>>

\* A faulty variant of SimilarRows: the clause a.id != $artifact_id is left out.
SimilarRowsWithSelf(arts, id, fingerprint) ==
    SortedSeq({n.id : n \in {a \in arts : a.ast_fingerprint = fingerprint}})

\* MATCH (a:Artifact) WHERE a.ast_fingerprint = $fingerprint AND a.id != $artifact_id
SimilarRows(arts, id, fingerprint) ==
    SortedSeq({n.id : n \in {a \in arts : a.ast_fingerprint = fingerprint /\ a.id # id}})

\* LIMIT $limit without ORDER BY: any limit of the rows when there are more
LimitTo(rows, limit) ==
    IF Len(rows) <= limit THEN {rows}
    ELSE {KeepRows(rows, D) : D \in KSubsets(1..Len(rows), Len(rows) - limit)}

\* find_similar_artifacts(artifact_id, limit): the lists it may return
FindSimilar(arts, id, limit) ==
    IF IsNone(GetNode(arts, id)) THEN {<<>>}
    ELSE IF GetNode(arts, id).ast_fingerprint = EmptyFingerprint THEN {<<>>}
    ELSE LimitTo(SimilarRows(arts, id, GetNode(arts, id).ast_fingerprint), limit)

\* A faulty variant of FindSimilarArtifacts: the reference's fingerprint is cached.
FindSimilarCaching(id, limit) ==
    /\ \E ids \in FindSimilar(artifacts, id, limit) :
          res' = [op |-> "find_similar_artifacts", artifact_id |-> id, limit |-> limit,
                  outcome |-> "returned", ids |-> ids]
    /\ fingerprint_cache' = [k \in DOMAIN fingerprint_cache \cup {id} |->
                                IF k = id THEN EmptyFingerprint ELSE fingerprint_cache[k]]
    /\ UNCHANGED <<dictionary, artifact_cache, related, pending, disk, bit_array, items, artifacts, invariants, depends, constrains>>

\* a call of find_similar_artifacts
FindSimilarArtifacts(id, limit) ==
    /\ \E ids \in FindSimilar(artifacts, id, limit) :
          res' = [op |-> "find_similar_artifacts", artifact_id |-> id, limit |-> limit,
                  outcome |-> "returned", ids |-> ids]
    /\ UNCHANGED <<dictionary, artifact_cache, related, pending, disk, fingerprint_cache, bit_array, items, artifacts, invariants,
                   depends, constrains>>

\* the lists of ids handed to query_multiple_artifacts
IdLists == {SubSeq(SortedSeq(IngestIds), 1, n) : n \in 0..Cardinality(IngestIds)}

\* the node a driver stores for id: every file has the same structure
CloneProps(id) == [NodeProps(id) EXCEPT !.ast_fingerprint = Fingerprint(1)]

\* the queries against a store and a cache that writers fill
QueryNext ==
    \/ \E id \in IngestIds : CreateNode(CloneProps(id))
    \/ \E src \in IngestIds, dst \in IngestIds : CreateEdge(src, dst)
    \/ \E list \in {SortedSeq(IngestIds)} : BloomAddBatch(list)
    \/ \E id \in IngestIds : CacheSet(id, CloneProps(id).ast_fingerprint)
    \/ \E id \in IngestIds : QueryCore(id, TRUE, DefaultDepth)
    \/ \E list \in IdLists : QueryMultipleArtifacts(list, TRUE)
    \/ \E id \in IngestIds : ExplainArtifact(id)
    \/ \E id \in IngestIds : FindSimilarArtifacts(id, DefaultLimit)

SpecQuery == Init /\ [][QueryNext]_vars

\* the fingerprints a node is stored with
StoredFingerprints == {EmptyFingerprint} \cup {Fingerprint(c) : c \in 1..(NContents + 1)}

\* find_similar_artifacts against nodes of equal, different and no fingerprint
SimilarNext ==
    \/ \E id \in Ids, fp \in StoredFingerprints :
          CreateNode([NodeProps(id) EXCEPT !.ast_fingerprint = fp])
    \/ \E id \in Ids, limit \in 1..MaxLimit : FindSimilarArtifacts(id, limit)

SpecSimilar == Init /\ [][SimilarNext]_vars

(***************************************************************************)
(* Fingerprints of syntax trees.  A source text is the sequence of its     *)
(* top-level declarations; a digest is kept as the text it was taken of    *)
(* (SHA-256 without collisions) with the number of hex digits it prints.   *)
(***************************************************************************)
\* most top-level declarations in a source text
MaxDecls == 3

\* hashlib.sha256(text).hexdigest()
Sha256(text) == [hexdigits |-> 64, digest_of |-> text]

\* the empty string
EmptyString == [hexdigits |-> 0, digest_of |-> <<>>]

\* a tree-sitter node
Node(type, is_named, children) == [type |-> type, is_named |-> is_named, children |-> children]

\* the subtree the parser builds for a declaration
DeclTree(decl) ==
    IF decl = "import_statement"
    THEN Node(decl, TRUE, << Node("import", FALSE, <<>>), Node("dotted_name", TRUE, <<>>) >>)
    ELSE IF decl = "function_definition"
    THEN Node(decl, TRUE, << Node("def", FALSE, <<>>), Node("identifier", TRUE, <<>>),
                             Node("parameters", TRUE, <<>>), Node("block", TRUE, <<>>) >>)
    ELSE Node(decl, TRUE, << Node("class", FALSE, <<>>), Node("identifier", TRUE, <<>>),
                             Node("block", TRUE, <<>>) >>)

DeclNames == {"import_statement", "function_definition", "class_definition"}

\* parser.parse(bytes(content, "utf-8")).root_node
ParseTree(content) == Node("module", TRUE, [i \in 1..Len(content) |-> DeclTree(content[i])])

RECURSIVE Flatten(_)
\* the concatenation of a sequence of sequences
Flatten(seqs) == IF seqs = <<>> THEN <<>> ELSE Head(seqs) \o Flatten(Tail(seqs))

RECURSIVE SerializeNode(_, _)
\* PythonParser._serialize_node(node, indent): one line per node, all the
\* children in source order
SerializeNode(node, indent) ==
    << <<indent, node.type>> >>
    \o Flatten([i \in 1..Len(node.children) |-> SerializeNode(node.children[i], indent + 1)])

\* PythonParser.compute_fingerprint(content)
ComputeFingerprint(content) == Sha256(SerializeNode(ParseTree(content), 0))

\* child_hashes.sort() and the join: the sorted list is the multiset of the hashes
SortedHashes(hashes) ==
    [h \in Range(hashes) |-> Cardinality({i \in 1..Len(hashes) : hashes[i] = h})]

RECURSIVE HashAstStructure(_)
\* hash_ast_structure(node, content)
HashAstStructure(node) ==
    LET named == SelectSeq(node.children, LAMBDA c : c.is_named)
    IN IF named = <<>> THEN Sha256(<<node.type>>)
       ELSE Sha256(<<node.type,
                     SortedHashes([i \in 1..Len(named) |-> HashAstStructure(named[i])])>>)

\* parse_code_v2(code, file_path, parser); parser is what get_tree_sitter_parser
\* and parser.parse do: "ok", "unavailable" (None) or "error" (parse raises)
ParseCodeV2(code, parser) ==
    IF parser = "ok"
    THEN [ast_fingerprint |-> HashAstStructure(ParseTree(code)), parse_success |-> TRUE]
    ELSE [ast_fingerprint |-> Sha256(code), parse_success |-> FALSE]

\* parse_file_v2(file_path): a file that cannot be read has no code
ParseFileV2(readable, code, parser) ==
    IF ~readable THEN [ast_fingerprint |-> EmptyString, parse_success |-> FALSE]
    ELSE ParseCodeV2(code, parser)

\* the fingerprint ingest_file computes for the node it stores
CallComputeFingerprint(content) ==
    /\ res' = [op |-> "compute_fingerprint", content |-> content,
               ast_fingerprint |-> ComputeFingerprint(content)]
    /\ UNCHANGED <<dictionary, artifact_cache, related, pending, disk, fingerprint_cache, bit_array, items, artifacts, invariants,
                   depends, constrains>>

\* a call of parse_code_v2
CallParseCodeV2(code, parser) ==
    /\ res' = [op |-> "parse_code_v2", readable |-> TRUE, code |-> code, parser |-> parser,
               parsed |-> ParseCodeV2(code, parser)]
    /\ UNCHANGED <<dictionary, artifact_cache, related, pending, disk, fingerprint_cache, bit_array, items, artifacts, invariants,
                   depends, constrains>>

\* a call of parse_file_v2
CallParseFileV2(readable, code, parser) ==
    /\ res' = [op |-> "parse_file_v2", readable |-> readable, code |-> code, parser |-> parser,
               parsed |-> ParseFileV2(readable, code, parser)]
    /\ UNCHANGED <<dictionary, artifact_cache, related, pending, disk, fingerprint_cache, bit_array, items, artifacts, invariants,
                   depends, constrains>>

Sources == UNION {[1..n -> DeclNames] : n \in 0..MaxDecls}
Parsers == {"ok", "unavailable", "error"}

FingerprintNext ==
    \/ \E content \in Sources : CallComputeFingerprint(content)
    \/ \E code \in Sources, parser \in Parsers : CallParseCodeV2(code, parser)
    \/ \E code \in Sources, parser \in Parsers : CallParseFileV2(TRUE, code, parser)
    \/ \E parser \in Parsers : CallParseFileV2(FALSE, <<>>, parser)

SpecFingerprint == Init /\ [][FingerprintNext]_vars

\* two source texts that differ only in the order of their declarations
SameDeclarations(a, b) ==
    \A d \in DeclNames : Cardinality({i \in 1..Len(a) : a[i] = d})
                             = Cardinality({i \in 1..Len(b) : b[i] = d})

(***************************************************************************)
(* Bloom filter objects: construction, union, intersection, save and load  *)
(***************************************************************************)
\* the configuration of the live filter: expected_items and
\* false_positive_rate (in percent)
ExpectedItems == 2
FalsePositiveRate == 10

\* int(-n * ln(p) / ln(2)^2), for the rates the model uses (ln in thousandths)
OptimalSizeBits(n, p) == (n * (IF p = 10 THEN 2303 ELSE 1609)) \div 480

\* int((m / n) * ln(2))
OptimalNumHashes(n, m) == (m * 693) \div (n * 1000)

\* hash_seeds passed to the constructor by a caller
CustomSeeds(k) == [i \in 1..k |-> 5 * i + 1]

\* CompressedBloomFilter(n, p, seeds) after add_batch of the items
FilterOf(n, p, seeds, added) ==
    LET m == OptimalSizeBits(n, p)
        set == UNION {Range(Positions(item, seeds, m)) : item \in added}
    IN [expected_items |-> n, false_positive_rate |-> p, size_bits |-> m,
        size_bytes |-> (m + 7) \div 8, num_hashes |-> OptimalNumHashes(n, m),
        hash_seeds |-> seeds,
        bit_array |-> [b \in 0..(((m + 7) \div 8) - 1) |->
                          {pos % 8 : pos \in {q \in set : q \div 8 = b}}],
        items |-> added]

\* the live filter as an object
LiveFilter ==
    [expected_items |-> ExpectedItems, false_positive_rate |-> FalsePositiveRate,
     size_bits |-> SizeBits, size_bytes |-> SizeBytes, num_hashes |-> NumHashes,
     hash_seeds |-> hash_seeds, bit_array |-> bit_array, items |-> items]

\* contains(item) of a filter object
FilterContains(f, item) ==
    \A pos \in Range(Positions(item, f.hash_seeds, f.size_bits)) :
        (pos % 8) \in f.bit_array[pos \div 8]

\* the dictionary save() pickles
Pickle(f) ==
    [stored |-> TRUE, bit_array |-> f.bit_array, expected_items |-> f.expected_items,
     false_positive_rate |-> f.false_positive_rate, hash_seeds |-> f.hash_seeds,
     size_bits |-> f.size_bits, size_bytes |-> f.size_bytes, num_hashes |-> f.num_hashes]

\* A faulty variant of Unpickle: the bit array is not restored.
UnpickleEmpty(data) ==
    [FilterOf(data.expected_items, data.false_positive_rate, data.hash_seeds, {})
        EXCEPT !.size_bits = data.size_bits,
               !.size_bytes = data.size_bytes, !.num_hashes = data.num_hashes]

\* load(): the object is constructed from n, p and the seeds, then bit_array,
\* size_bits, size_bytes and num_hashes are overwritten from the file
Unpickle(data) ==
    [FilterOf(data.expected_items, data.false_positive_rate, data.hash_seeds, {})
        EXCEPT !.bit_array = data.bit_array, !.size_bits = data.size_bits,
               !.size_bytes = data.size_bytes, !.num_hashes = data.num_hashes]

\* union(other) and intersection(other)
Combine(op, f, other) ==
    IF f.size_bits # other.size_bits \/ f.num_hashes # other.num_hashes
    THEN [outcome |-> "raised", error |-> "ValueError"]
    ELSE [outcome |-> "returned", error |-> "none",
          result |-> [FilterOf(f.expected_items, f.false_positive_rate, f.hash_seeds, {})
                         EXCEPT !.bit_array = [b \in DOMAIN f.bit_array |->
                                    IF op = "union" THEN f.bit_array[b] \cup other.bit_array[b]
                                    ELSE f.bit_array[b] \cap other.bit_array[b]],
                                !.items = IF op = "union" THEN f.items \cup other.items
                                          ELSE f.items \cap other.items]]

\* a call of save(path)
Save ==
    /\ disk' = Pickle(LiveFilter)
    /\ res' = [op |-> "save", filter |-> LiveFilter]
    /\ UNCHANGED <<dictionary, artifact_cache, related, pending, fingerprint_cache, bit_array, items, artifacts, invariants,
                   depends, constrains>>

\* a call of CompressedBloomFilter.load(path) on a file that is there
Load ==
    /\ disk.stored
    /\ res' = [op |-> "load", outcome |-> "returned", data |-> disk, filter |-> Unpickle(disk)]
    /\ UNCHANGED <<dictionary, artifact_cache, related, pending, disk, fingerprint_cache, bit_array, items, artifacts, invariants,
                   depends, constrains>>

\* a call of union(other) or intersection(other) on the live filter
CallCombine(op, other) ==
    /\ res' = [op |-> op, self |-> LiveFilter, other |-> other,
               call |-> Combine(op, LiveFilter, other)]
    /\ UNCHANGED <<dictionary, artifact_cache, related, pending, disk, fingerprint_cache, bit_array, items, artifacts, invariants,
                   depends, constrains>>

\* the snapshot file is replaced by one that came from elsewhere
PutSnapshot(data) ==
    /\ disk' = data
    /\ res' = [op |-> "put_snapshot"]
    /\ UNCHANGED <<dictionary, artifact_cache, related, pending, fingerprint_cache, bit_array, items, artifacts, invariants,
                   depends, constrains>>

\* filters built elsewhere: the live configuration or another one, the default
\* seeds or a caller's
OtherFilters ==
    {FilterOf(n, FalsePositiveRate, seeds, added) :
        n \in {ExpectedItems, ExpectedItems + 1},
        seeds \in {hash_seeds, CustomSeeds(NumHashes)},
        added \in SUBSET IngestIds}

\* snapshot files from elsewhere: of another filter, or with a field changed
ForeignSnapshots ==
    {Pickle(f) : f \in OtherFilters}
    \cup {[Pickle(f) EXCEPT !.size_bits = @ + 1] : f \in OtherFilters}
    \cup {[Pickle(f) EXCEPT !.hash_seeds = Tail(@)] : f \in OtherFilters}

\* the fields of a snapshot agree with each other
Consistent(data) ==
    /\ data.size_bits = OptimalSizeBits(data.expected_items, data.false_positive_rate)
    /\ data.size_bytes = (data.size_bits + 7) \div 8
    /\ data.num_hashes = OptimalNumHashes(data.expected_items, data.size_bits)
    /\ Len(data.hash_seeds) = data.num_hashes
    /\ DOMAIN data.bit_array = 0..(data.size_bytes - 1)

SnapshotNext ==
    \/ \E item \in IngestIds : BloomAdd(item)
    \/ Save
    \/ Load
    \/ \E data \in ForeignSnapshots : PutSnapshot(data)
    \/ \E op \in {"union", "intersection"}, other \in OtherFilters : CallCombine(op, other)

SpecSnapshot == Init /\ [][SnapshotNext]_vars

(***************************************************************************)
(* Callers in parallel: add() statement by statement.  The filter has no   *)
(* lock, so `bit_array[byte_idx] |= (1 << bit_idx)` is a read of the byte  *)
(* followed by a write of it, and other callers run in between.            *)
(***************************************************************************)
\* most add() calls in flight at once
MaxAdders == 2

\* add(item) is entered: positions = self._hashes(item)
AddBegin(item) ==
    /\ Len(pending) < MaxAdders
    /\ pending' = Append(pending, [pc |-> "read", item |-> item, next |-> 1, byte |-> {}])
    /\ UNCHANGED <<dictionary, artifact_cache, related, res, disk, fingerprint_cache, bit_array, items, artifacts, invariants,
                   depends, constrains>>

\* the read half of `|=`: the byte is fetched
AddRead(t) ==
    /\ pending[t].pc = "read"
    /\ pending' = [pending EXCEPT ![t].pc = "write",
                                  ![t].byte = bit_array[Hashes(pending[t].item)[pending[t].next] \div 8]]
    /\ UNCHANGED <<dictionary, artifact_cache, related, res, disk, fingerprint_cache, bit_array, items, artifacts, invariants,
                   depends, constrains>>

\* the write half of `|=`: the fetched byte with the bit set is stored; after
\* the last position the item goes into _items and add returns
AddWrite(t) ==
    /\ pending[t].pc = "write"
    /\ LET pos == Hashes(pending[t].item)[pending[t].next]
       IN bit_array' = [bit_array EXCEPT ![pos \div 8] = pending[t].byte \cup {pos % 8}]
    /\ IF pending[t].next = NumHashes
       THEN /\ items' = items \cup {pending[t].item}
            /\ pending' = KeepRows(pending, {t})
            /\ res' = [op |-> "add", item |-> pending[t].item]
       ELSE /\ pending' = [pending EXCEPT ![t].pc = "read", ![t].next = @ + 1]
            /\ UNCHANGED <<items, res>>
    /\ UNCHANGED <<dictionary, artifact_cache, related, disk, fingerprint_cache, artifacts, invariants, depends, constrains>>

ConcurrentNext ==
    \/ \E path \in {NPaths}, content \in Contents : IngestFile(path, content)
    \/ \E item \in IngestIds : AddBegin(item)
    \/ \E t \in DOMAIN pending : AddRead(t)
    \/ \E t \in DOMAIN pending : AddWrite(t)

SpecConcurrent == Init /\ [][ConcurrentNext]_vars

(***************************************************************************)
(* ImportPathResolver: the path-to-id cache                                *)
(***************************************************************************)
\* _lookup_artifact_id(file_path): the pairs <<id or None, cache after>> it may
\* give; None is -1. A cached path is answered from the cache, another one by
\* MATCH (a:Artifact) WHERE a.path = $path RETURN a.id LIMIT 1, then cached.
LookupArtifactId(cache, arts, path) ==
    IF path \in DOMAIN cache THEN {<<cache[path], cache>>}
    ELSE IF \E a \in arts : a.path = path
    THEN {<<a.id, [p \in DOMAIN cache \cup {path} |-> IF p = path THEN a.id ELSE cache[p]]>> :
             a \in {n \in arts : n.path = path}}
    ELSE {<<-1, cache>>}

\* resolve(import_path, importing_file, language) of an import that names the
\* module stored under path
Resolve(path) ==
    /\ \E o \in LookupArtifactId(artifact_cache, artifacts, path) :
          /\ res' = [op |-> "resolve", path |-> path, id |-> o[1]]
          /\ artifact_cache' = o[2]
    /\ UNCHANGED <<dictionary, related, pending, disk, fingerprint_cache, bit_array, items, artifacts,
                   invariants, depends, constrains>>

\* preload_cache(): every row of MATCH (a:Artifact) RETURN a.id, a.path is
\* stored under its path; of two rows with one path the later one stays
PreloadCache ==
    /\ \E c \in [{a.path : a \in artifacts} -> NodeIds(artifacts)] :
          /\ \A p \in DOMAIN c : \E a \in artifacts : a.path = p /\ a.id = c[p]
          /\ artifact_cache' = [p \in DOMAIN artifact_cache \cup DOMAIN c |->
                                   IF p \in DOMAIN c THEN c[p] ELSE artifact_cache[p]]
    /\ res' = [op |-> "preload_cache"]
    /\ UNCHANGED <<dictionary, related, pending, disk, fingerprint_cache, bit_array, items, artifacts,
                   invariants, depends, constrains>>

ResolveNext ==
    \/ \E id \in Ids : CreateNode(NodeProps(id))
    \/ \E id \in Ids : DeleteNode(id)
    \/ \E path \in Paths : Resolve(path)
    \/ PreloadCache

SpecResolve == Init /\ [][ResolveNext]_vars

(***************************************************************************)
(* ingest_batch with a vector store that may refuse a commit               *)
(***************************************************************************)
\* _commit_batch: store_embeddings_batch is its last statement, so the nodes,
\* the edges and the statistics are written before the exception is re-raised;
\* the caller clears its batches only after a commit that returned
StoreCommit(st, store_ok) ==
    IF store_ok THEN [raised |-> FALSE, st |-> CommitBatch(st)]
    ELSE [raised |-> TRUE, st |-> [CommitBatch(st) EXCEPT !.batch = st.batch]]

\* the statements of the loop body before the batch-size test
QueueFile(st, file) ==
    [st EXCEPT !.batch = QueueViolations(
                             [st.batch EXCEPT !.artifacts =
                                  Append(@, ArtifactProps(file.path, file.content))],
                             Violations(file.content), ArtifactId(file.content)),
               !.stats.processed = @ + 1]

\* one iteration of the loop: the except clause of the iteration also catches
\* what the commit raises
StoreStep(st, file, batch_size, store_ok) ==
    IF file.content = NoFile THEN [st EXCEPT !.stats.errors = @ + 1]
    ELSE IF file.path = UnsupportedPath THEN st
    ELSE IF Len(QueueFile(st, file).batch.artifacts) < batch_size THEN QueueFile(st, file)
    ELSE LET committed == StoreCommit(QueueFile(st, file), store_ok)
         IN IF committed.raised THEN [committed.st EXCEPT !.stats.errors = @ + 1]
            ELSE committed.st

RECURSIVE StoreLoop(_, _, _, _)
StoreLoop(st, files, batch_size, store_ok) ==
    IF files = <<>> THEN st
    ELSE StoreLoop(StoreStep(st, Head(files), batch_size, store_ok),
                   Tail(files), batch_size, store_ok)

\* ingest_batch: the commit of what is left stands after the loop, outside
\* every try block
IngestBatchStoreOutcome(files, batch_size, store_ok) ==
    LET start == [artifacts |-> artifacts, invariants |-> invariants,
                  constrains |-> constrains, stats |-> ZeroStats, batch |-> EmptyBatch]
        looped == StoreLoop(start, files, batch_size, store_ok)
    IN IF files = <<>> THEN [raised |-> FALSE, st |-> start]
       ELSE IF looped.batch.artifacts # <<>> THEN StoreCommit(looped, store_ok)
       ELSE [raised |-> FALSE, st |-> looped]

\* BigBangPipeline.ingest_batch over a store that takes (store_ok) or refuses
\* the embeddings of every commit of the call
IngestBatchStore(files, batch_size, store_ok) ==
    \E o \in {IngestBatchStoreOutcome(files, batch_size, store_ok)} :
    /\ TotalEdges(o.st.constrains) <= MaxEdges
    /\ artifacts' = o.st.artifacts
    /\ invariants' = o.st.invariants
    /\ constrains' = o.st.constrains
    /\ res' = [op |-> "ingest_batch_store", files |-> files,
               outcome |-> IF o.raised THEN "raised" ELSE "returned",
               stats |-> o.st.stats,
               created |-> Cardinality(o.st.artifacts) - Cardinality(artifacts)]
    /\ UNCHANGED <<dictionary, artifact_cache, related, pending, disk, fingerprint_cache, bit_array, items, depends>>

StoreNext ==
    \E files \in FileLists, batch_size \in 1..MaxBatch, store_ok \in BOOLEAN :
        IngestBatchStore(files, batch_size, store_ok)

SpecStore == Init /\ [][StoreNext]_vars

(***************************************************************************)
(* TOON emission.  A text is a sequence of string pieces; an f-string is   *)
(* the concatenation of its literal pieces and its substituted values      *)
(***************************************************************************)
MaxFunctions == 2

RECURSIVE JoinTexts(_, _)
\* sep.join(texts)
JoinTexts(texts, sep) ==
    IF texts = <<>> THEN <<>>
    ELSE IF Len(texts) = 1 THEN texts[1]
    ELSE texts[1] \o <<sep>> \o JoinTexts(Tail(texts), sep)

\* dict.get(key, default)
Get(dict, key, default) == IF key \in DOMAIN dict THEN dict[key] ELSE default

\* dict[key] raises KeyError when the key is absent
HasKey(dict, key) == key \in DOMAIN dict

\* f"    - {func['name']}({params}) -> {ret}" and the calls line under it
FunctionLines(func) ==
    <<  <<"    - ">> \o func.name \o <<"(">>
            \o JoinTexts(Get(func, "parameters", <<>>), ", ")
            \o <<") -> ">> \o Get(func, "return_type", <<"None">>) >>
    \o (IF HasKey(func, "calls") /\ func.calls # <<>>
        THEN << <<"      calls: ">> \o JoinTexts(func.calls, ", ") >>
        ELSE <<>>)

\* f"      - {method['name']}({params}) -> {ret}"
MethodLine(method) ==
    <<"      - ">> \o method.name \o <<"(">>
        \o JoinTexts(Get(method, "parameters", <<>>), ", ")
        \o <<") -> ">> \o Get(method, "return_type", <<"None">>)

\* f"    - {cls['name']}:" and one line per method
ClassLines(cls) ==
    << <<"    - ">> \o cls.name \o <<":">> >>
    \o [i \in 1..Len(Get(cls, "methods", <<>>)) |-> MethodLine(cls.methods[i])]

\* the entries on which to_toon's subscript ['name'] raises KeyError
Raises(summary) ==
    \/ \E i \in DOMAIN summary.functions : ~HasKey(summary.functions[i], "name")
    \/ \E i \in DOMAIN summary.classes :
           \/ ~HasKey(summary.classes[i], "name")
           \/ \E j \in DOMAIN Get(summary.classes[i], "methods", <<>>) :
                  ~HasKey(summary.classes[i].methods[j], "name")

\* ASTSummary.to_toon: the list of lines it joins with "\n", or the KeyError
ToToon(summary) ==
    IF Raises(summary) THEN [raised |-> "KeyError", lines |-> <<>>]
    ELSE [raised |-> "no",
          lines |->
              << <<summary.file_path, ":">>, <<"  language: ", summary.language>> >>
              \o (IF summary.imports # <<>>
                  THEN << <<"  imports:">> >>
                       \o [i \in 1..Len(summary.imports) |-> <<"    - ">> \o summary.imports[i]]
                  ELSE <<>>)
              \o (IF summary.exports # <<>>
                  THEN << <<"  exports:">> >>
                       \o [i \in 1..Len(summary.exports) |-> <<"    - ">> \o summary.exports[i]]
                  ELSE <<>>)
              \o (IF summary.functions # <<>>
                  THEN << <<"  functions:">> >>
                       \o Flatten([i \in 1..Len(summary.functions) |->
                                            FunctionLines(summary.functions[i])])
                  ELSE <<>>)
              \o (IF summary.classes # <<>>
                  THEN << <<"  classes:">> >>
                       \o Flatten([i \in 1..Len(summary.classes) |->
                                            ClassLines(summary.classes[i])])
                  ELSE <<>>)]

\* TOONEncoder.encode_graph_context(main_artifact, dependencies)
EncodeGraphContextText(main_artifact, dependencies) ==
    IF Raises(main_artifact) \/ \E i \in DOMAIN dependencies : Raises(dependencies[i])
    THEN [raised |-> "KeyError", lines |-> <<>>]
    ELSE [raised |-> "no",
          lines |->
              << <<"# ", main_artifact.file_path>> >> \o ToToon(main_artifact).lines
              \o (IF dependencies # <<>>
                  THEN << <<"\n# ", "DEPENDS_ON", " (", Len(dependencies), " files)">> >>
                       \o Flatten([i \in 1..Len(dependencies) |->
                              << <<"\n## ", dependencies[i].file_path>> >>
                              \o ToToon(dependencies[i]).lines])
                  ELSE <<>>)]

\* identifiers: a plain one, one with a colon, one with a newline
Identifiers == {<<"f">>, <<"a", ":", "b">>, <<"g", "\n">>}

FunctionEntries ==
    {[name |-> n, parameters |-> << <<"x">>, <<"y">> >>] : n \in Identifiers}
    \cup {[name |-> n, return_type |-> <<"int">>, calls |-> << <<"h">> >>] : n \in Identifiers}
    \cup {[parameters |-> << <<"x">> >>]}

ClassEntries ==
    {[name |-> <<"C">>, methods |-> <<m>>] :
         m \in {[name |-> <<"m">>], [name |-> <<"a", ":", "b">>], [parameters |-> <<>>]}}
    \cup {[methods |-> <<>>]}

Summaries ==
    {[file_path |-> "a.py", language |-> "python", imports |-> imps, exports |-> <<>>,
      functions |-> funcs, classes |-> clss] :
        imps \in {<<>>, << <<"os">> >>},
        funcs \in UNION {[1..n -> FunctionEntries] : n \in 0..MaxFunctions},
        clss \in {<<>>} \cup {<<c>> : c \in ClassEntries}}

PlainSummary ==
    [file_path |-> "b.py", language |-> "python", imports |-> <<>>, exports |-> <<>>,
     functions |-> << [name |-> <<"f">>] >>, classes |-> <<>>]

\* ast_to_toon(summary)
CallToToon(summary) ==
    /\ res' = [op |-> "to_toon", summary |-> summary, out |-> ToToon(summary)]
    /\ UNCHANGED <<dictionary, artifact_cache, related, pending, disk, fingerprint_cache, bit_array, items,
                   artifacts, invariants, depends, constrains>>

CallEncodeGraphContext(main_artifact, dependencies) ==
    /\ res' = [op |-> "encode_graph_context", summary |-> main_artifact,
               out |-> EncodeGraphContextText(main_artifact, dependencies)]
    /\ UNCHANGED <<dictionary, artifact_cache, related, pending, disk, fingerprint_cache, bit_array, items,
                   artifacts, invariants, depends, constrains>>

ToonNext ==
    \/ \E summary \in Summaries : CallToToon(summary)
    \/ \E summary \in Summaries, deps \in {<<>>, <<PlainSummary>>} :
           CallEncodeGraphContext(summary, deps)

SpecToon == Init /\ [][ToonNext]_vars

(***************************************************************************)
(* CodePatternDictionary.  A text is a sequence of characters, a           *)
(* compressed text a sequence of byte values                               *)
(***************************************************************************)
MaxTextLen == 3
MaxCount == 2

Alphabet == {"i", "f", " ", "\n"}

\* ord(c) for the characters of the model's texts
Ord == [c \in Alphabet |-> CASE c = "\n" -> 10 [] c = " " -> 32 [] c = "f" -> 102 [] c = "i" -> 105]

\* chr(code)
Chr(code) == CHOOSE c \in Alphabet : Ord[c] = code

\* self.patterns[chunk]
CodeOf(patterns, chunk) == CHOOSE c \in DOMAIN patterns : patterns[c] = chunk

\* the pattern lengths compress tries at position i, longest first
MatchLengths(patterns, text, i) ==
    {n \in 3..20 : i + n - 1 <= Len(text) /\ SubSeq(text, i, i + n - 1) \in Range(patterns)}

RECURSIVE CompressFrom(_, _, _)
\* the while loop of compress from position i on: a dictionary code for the
\* longest matching pattern, else the character's ord
CompressFrom(patterns, text, i) ==
    IF i > Len(text) THEN <<>>
    ELSE IF MatchLengths(patterns, text, i) # {}
    THEN LET n == CHOOSE k \in MatchLengths(patterns, text, i) :
                      \A l \in MatchLengths(patterns, text, i) : l <= k
         IN <<CodeOf(patterns, SubSeq(text, i, i + n - 1))>> \o CompressFrom(patterns, text, i + n)
    ELSE <<Ord[text[i]]>> \o CompressFrom(patterns, text, i + 1)

\* compress(text)[0]; bytearray.append raises ValueError outside 0..255
Compress(patterns, text) ==
    LET values == CompressFrom(patterns, text, 1)
    IN IF \E i \in DOMAIN values : values[i] > 255
       THEN [raised |-> "ValueError", bytes |-> <<>>]
       ELSE [raised |-> "no", bytes |-> values]

\* decompress(compressed): a byte that is a dictionary code gives its
\* pattern, any other byte its character
Decompress(patterns, compressed) ==
    Flatten([i \in 1..Len(compressed) |->
                      IF compressed[i] \in DOMAIN patterns THEN patterns[compressed[i]]
                      ELSE <<Chr(compressed[i])>>])

\* _is_valid_pattern for the characters of the model's texts
IsValidPattern(ngram) ==
    /\ Len(ngram) >= 3
    /\ ngram[1] \in {"i", "f"}
    /\ \A k \in DOMAIN ngram : ngram[k] \in {"i", "f"}

\* the n-grams learn_from_code counts, in the order it meets them
NGrams(code) ==
    Flatten([l \in 1..3 |->
        [i \in 1..(IF Len(code) > l + 2 THEN Len(code) - (l + 2) ELSE 0) |->
             SubSeq(code, i, i + l + 1)]])

RECURSIVE Count(_, _)
\* self.frequencies[ngram] += 1 for every valid n-gram
Count(frequencies, ngrams) ==
    IF ngrams = <<>> THEN frequencies
    ELSE IF ~IsValidPattern(Head(ngrams)) THEN Count(frequencies, Tail(ngrams))
    ELSE IF \E k \in DOMAIN frequencies : frequencies[k].pattern = Head(ngrams)
    THEN Count([k \in DOMAIN frequencies |->
                    IF frequencies[k].pattern = Head(ngrams)
                    THEN [frequencies[k] EXCEPT !.count = @ + 1] ELSE frequencies[k]],
               Tail(ngrams))
    ELSE Count(Append(frequencies, [pattern |-> Head(ngrams), count |-> 1]), Tail(ngrams))

RECURSIVE MostCommon(_)
\* Counter.most_common: by count, highest first, equal counts in insertion order
MostCommon(frequencies) ==
    IF frequencies = <<>> THEN <<>>
    ELSE LET k == CHOOSE j \in DOMAIN frequencies :
                      /\ \A l \in DOMAIN frequencies : frequencies[l].count <= frequencies[j].count
                      /\ \A l \in 1..(j - 1) : frequencies[l].count < frequencies[j].count
         IN <<frequencies[k].pattern>>
            \o MostCommon([l \in 1..(Len(frequencies) - 1) |->
                               IF l < k THEN frequencies[l] ELSE frequencies[l + 1]])

RECURSIVE UpdateDictionary(_, _)
\* _update_dictionary: a new pattern gets the code len(patterns) + 1
UpdateDictionary(patterns, top_patterns) ==
    IF top_patterns = <<>> \/ Len(patterns) >= MaxEntries THEN patterns
    ELSE IF Head(top_patterns) \in Range(patterns)
    THEN UpdateDictionary(patterns, Tail(top_patterns))
    ELSE UpdateDictionary(Append(patterns, Head(top_patterns)), Tail(top_patterns))

\* dictionary.learn_from_code(code)
LearnFromCode(code) ==
    /\ \E frequencies \in {Count(Frequencies(dictionary), NGrams(code))} :
       \E patterns \in {UpdateDictionary(Patterns(dictionary),
                             SubSeq(MostCommon(frequencies), 1,
                                    IF Len(frequencies) < MaxEntries * 2
                                    THEN Len(frequencies) ELSE MaxEntries * 2))} :
           /\ \A k \in DOMAIN frequencies :
                  frequencies[k].count <= MaxCount \/ frequencies[k].count = DefaultFrequency
           /\ dictionary' =
                  [learned |-> SubSeq(patterns, Len(NewDictionary.patterns) + 1, Len(patterns)),
                   counted |-> SubSeq(frequencies, Len(NewDictionary.frequencies) + 1,
                                      Len(frequencies)),
                   defaults |-> [i \in {k \in DOMAIN NewDictionary.frequencies :
                                           frequencies[k].count # DefaultFrequency} |->
                                     frequencies[i].count - DefaultFrequency]]
    /\ res' = [op |-> "learn_from_code", code |-> code]
    /\ UNCHANGED <<artifact_cache, related, pending, disk, fingerprint_cache, bit_array, items,
                   artifacts, invariants, depends, constrains>>

\* dictionary.decompress(dictionary.compress(text)[0])
RoundTrip(text) ==
    /\ \E c \in {Compress(Patterns(dictionary), text)} :
           res' = [op |-> "round_trip", text |-> text, raised |-> c.raised, bytes |-> c.bytes,
                   out |-> IF c.raised = "no" THEN Decompress(Patterns(dictionary), c.bytes)
                           ELSE <<>>]
    /\ UNCHANGED <<dictionary, artifact_cache, related, pending, disk, fingerprint_cache,
                   bit_array, items, artifacts, invariants, depends, constrains>>

Texts == UNION {[1..n -> Alphabet] : n \in 0..MaxTextLen}

LearnTexts == {<<"i", "f", "f", "i">>, <<"f", "i", "f", "i", "f">>}

DictionaryNext ==
    \/ \E code \in LearnTexts : LearnFromCode(code)
    \/ \E text \in Texts : RoundTrip(text)

SpecDictionary == Init /\ [][DictionaryNext]_vars

(***************************************************************************)
(* DeltaEncoder                                                            *)
(***************************************************************************)
DeltaAlphabet == {"i", "f"}

\* str.encode() of a text of one-byte characters
Encode(text) == [k \in DOMAIN text |-> Ord[text[k]]]

RECURSIVE Segments(_, _, _)
\* the (position, replacement) pairs encode_delta records from index i (from 0) on
Segments(base, target, i) ==
    IF i >= Len(base) THEN <<>>
    ELSE IF base[i + 1] = target[i + 1] THEN Segments(base, target, i + 1)
    ELSE LET stop == CHOOSE e \in (i + 1)..Len(base) :
                         /\ \A k \in i..(e - 1) : base[k + 1] # target[k + 1]
                         /\ e = Len(base) \/ base[e + 1] = target[e + 1]
         IN << <<i, SubSeq(target, i + 1, stop)>> >> \o Segments(base, target, stop)

\* encode_delta(base, target): the whole target when the lengths differ, else
\* two bytes of position, one byte of length and the characters per segment
EncodeDelta(base, target) ==
    IF Len(base) # Len(target) THEN Encode(target)
    ELSE LET deltas == Segments(base, target, 0)
         IN Flatten([d \in DOMAIN deltas |->
                <<deltas[d][1] \div 256, deltas[d][1] % 256, Len(deltas[d][2])>>
                \o Encode(deltas[d][2])])

RECURSIVE DecodeFrom(_, _, _)
\* the while loop of decode_delta from byte i (from 1) on; delta[i] past the
\* end raises IndexError, a slice past the end is cut short
DecodeFrom(result, delta, i) ==
    IF i > Len(delta) THEN [raised |-> "no", text |-> result]
    ELSE IF i + 2 > Len(delta) THEN [raised |-> "IndexError", text |-> <<>>]
    ELSE LET pos == delta[i] * 256 + delta[i + 1]
             length == delta[i + 2]
             chars == SubSeq(delta, i + 3,
                             IF i + 2 + length < Len(delta) THEN i + 2 + length ELSE Len(delta))
         IN DecodeFrom([k \in DOMAIN result |->
                            IF k - 1 >= pos /\ k - 1 - pos < Len(chars)
                            THEN Chr(chars[k - pos]) ELSE result[k]],
                       delta, i + 3 + length)

\* decode_delta(base, delta)
DecodeDelta(base, delta) ==
    IF delta = <<>> THEN [raised |-> "no", text |-> base] ELSE DecodeFrom(base, delta, 1)

\* encoder.decode_delta(base, encoder.encode_delta(base, target))
DeltaRoundTrip(base, target) ==
    /\ res' = [op |-> "delta_round_trip", base |-> base, target |-> target,
               delta |-> EncodeDelta(base, target),
               decoded |-> DecodeDelta(base, EncodeDelta(base, target))]
    /\ UNCHANGED <<dictionary, artifact_cache, related, pending, disk, fingerprint_cache,
                   bit_array, items, artifacts, invariants, depends, constrains>>

DeltaTexts == UNION {[1..n -> DeltaAlphabet] : n \in 0..MaxTextLen}

DeltaNext == \E base \in DeltaTexts, target \in DeltaTexts : DeltaRoundTrip(base, target)

SpecDelta == Init /\ [][DeltaNext]_vars

(***************************************************************************)
(* PlasticityEngine.  Weights are counted in hundredths; the Concept nodes *)
(* of ConceptIds are in the store throughout                               *)
(***************************************************************************)
MaxWeight == 100
RemoveBelow == 10
NConcepts == 2

ConceptIds == 1..NConcepts

\* get_edge_weight(src, dst, "RELATED_TO"): 0.0 when there is no edge
GetEdgeWeight(rel, src, dst) == IF <<src, dst>> \in DOMAIN rel THEN rel[<<src, dst>>] ELSE 0

\* _set_edge_weight: SET r.weight on the edge that exists, else create_edge
SetEdgeWeight(rel, src, dst, weight) ==
    [e \in DOMAIN rel \cup {<<src, dst>>} |-> IF e = <<src, dst>> THEN weight ELSE rel[e]]

\* _remove_edge
RemoveEdge(rel, src, dst) == [e \in DOMAIN rel \ {<<src, dst>>} |-> rel[e]]

\* the faulty variant: the sum without the cap
NewWeightUncapped(current_weight, learning_rate) == current_weight + learning_rate

\* min(1.0, current_weight + learning_rate)
NewWeight(current_weight, learning_rate) ==
    IF current_weight + learning_rate < MaxWeight THEN current_weight + learning_rate
    ELSE MaxWeight

\* reinforce_coactivation(node_set, learning_rate): every pair a < b of the
\* sorted node list; the pairs are distinct edges, so the loop's writes do
\* not read one another
ReinforceCoactivation(node_set, learning_rate) ==
    /\ related' = [e \in DOMAIN related \cup {p \in node_set \X node_set : p[1] < p[2]} |->
                       IF e[1] \in node_set /\ e[2] \in node_set /\ e[1] < e[2]
                       THEN NewWeight(GetEdgeWeight(related, e[1], e[2]), learning_rate)
                       ELSE related[e]]
    /\ res' = [op |-> "reinforce_coactivation", nodes |-> node_set, amount |-> learning_rate,
               before |-> related]
    /\ UNCHANGED <<dictionary, artifact_cache, pending, disk, fingerprint_cache, bit_array, items,
                   artifacts, invariants, depends, constrains>>

\* punish_mistake(node_a, node_b, penalty): a difference that is exactly the
\* threshold is below it or not as the float subtraction rounds (0.3 - 0.2 is
\* below 0.1, 0.5 - 0.4 is not)
PunishMistake(node_a, node_b, penalty) ==
    /\ \E current_weight \in {GetEdgeWeight(related, node_a, node_b)} :
       \E new_weight \in {IF current_weight - penalty > 0 THEN current_weight - penalty ELSE 0} :
           IF current_weight > 0
           THEN \/ /\ new_weight <= RemoveBelow
                   /\ related' = RemoveEdge(related, node_a, node_b)
                \/ /\ new_weight >= RemoveBelow
                   /\ related' = SetEdgeWeight(related, node_a, node_b, new_weight)
           ELSE related' = related
    /\ res' = [op |-> "punish_mistake", src |-> node_a, dst |-> node_b, amount |-> penalty,
               before |-> related]
    /\ UNCHANGED <<dictionary, artifact_cache, pending, disk, fingerprint_cache, bit_array, items,
                   artifacts, invariants, depends, constrains>>

LearningRates == {0, 20, MaxWeight}
Penalties == {20, 30}

PlasticityNext ==
    \/ \E node_set \in SUBSET ConceptIds, learning_rate \in LearningRates :
           ReinforceCoactivation(node_set, learning_rate)
    \/ \E node_a \in ConceptIds, node_b \in ConceptIds, penalty \in Penalties :
           PunishMistake(node_a, node_b, penalty)

SpecPlasticity == Init /\ [][PlasticityNext]_vars

(***************************************************************************)
(* ActivationEngine.spread, one loop iteration per step.  Energies are     *)
(* counted in ten-thousandths, factors in hundredths                       *)
(***************************************************************************)
SeedEnergy == 10000
DefaultThreshold == 1500
DefaultDecay == 80
DefaultSpreadDepth == 3

\* TRANSMISSION_FACTORS of the edge types the model's store holds
TransmissionFactor(type) == IF type = "CONSTRAINS" THEN 100 ELSE 70

\* energy * edge.get("weight", 1.0) * decay_factor * transmission_factor; the
\* rows of _get_outgoing_edges carry no weight, so it is 1.0
Transmitted(energy, decay_factor, type) ==
    (((energy * decay_factor) \div 100) * TransmissionFactor(type)) \div 100

\* the enumerations of a set of rows: a MATCH without ORDER BY gives any
Orders(rows) == {s \in [1..Cardinality(rows) -> rows] : Range(s) = rows}

\* _get_outgoing_edges(node_id): the rows of DEPENDS_ON, then of CONSTRAINS
\* (the edge types in the order of the code's list that the store holds)
GetOutgoingEdges(node_id) ==
    {d \o c :
        d \in Orders({[dst |-> e[2], type |-> "DEPENDS_ON"] :
                         e \in {x \in DOMAIN depends : x[1] = node_id}}),
        c \in Orders({[dst |-> e[2], type |-> "CONSTRAINS"] :
                         e \in {x \in DOMAIN constrains : x[1] = node_id}})}

\* the faulty variant: no node counts as visited
NeverVisited(node_id, visited) == FALSE

\* node_id in visited
IsVisited(node_id, visited) == node_id \in visited

RECURSIVE Enqueue(_, _, _)
\* the for loop over the edges of the expanded node
Enqueue(queue, edges, t) ==
    IF edges = <<>> THEN queue
    ELSE IF IsVisited(Head(edges).dst, t.visited)
              \/ Transmitted(t.energy, t.decay_factor, Head(edges).type) < t.energy_threshold
    THEN Enqueue(queue, Tail(edges), t)
    ELSE Enqueue(Append(queue, [node |-> Head(edges).dst,
                                energy |-> Transmitted(t.energy, t.decay_factor, Head(edges).type),
                                depth |-> t.depth + 1]),
                 Tail(edges), t)

\* spread(seed_node_id, max_depth, energy_threshold, decay_factor) is entered;
\* `expanded` logs the calls of _get_outgoing_edges
SpreadBegin(seed_node_id, max_depth, energy_threshold, decay_factor) ==
    /\ pending = <<>>
    /\ pending' = << [pc |-> "spread", seed |-> seed_node_id, max_depth |-> max_depth,
                      energy_threshold |-> energy_threshold, decay_factor |-> decay_factor,
                      queue |-> << [node |-> seed_node_id, energy |-> SeedEnergy, depth |-> 0] >>,
                      visited |-> {}, energies |-> [n \in {} |-> 0], expanded |-> <<>>] >>
    /\ UNCHANGED <<dictionary, artifact_cache, related, res, disk, fingerprint_cache, bit_array,
                   items, artifacts, invariants, depends, constrains>>

\* one iteration of `while queue`
SpreadStep ==
    /\ pending # <<>> /\ pending[1].pc = "spread" /\ pending[1].queue # <<>>
    /\ LET t == pending[1]
           head == Head(t.queue)
           rest == [t EXCEPT !.queue = Tail(t.queue)]
           seen == [rest EXCEPT !.visited = @ \cup {head.node},
                                !.energies = IF head.energy >= t.energy_threshold
                                             THEN [n \in DOMAIN @ \cup {head.node} |->
                                                       IF n = head.node THEN head.energy ELSE @[n]]
                                             ELSE @]
       IN IF IsVisited(head.node, t.visited) THEN pending' = <<rest>>
          ELSE IF head.depth >= t.max_depth THEN pending' = <<seen>>
          ELSE \E edges \in GetOutgoingEdges(head.node) :
                   pending' = << [seen EXCEPT
                       !.expanded = Append(@, head.node),
                       !.queue = Enqueue(@, edges,
                                         [visited |-> seen.visited, energy |-> head.energy,
                                          depth |-> head.depth, decay_factor |-> t.decay_factor,
                                          energy_threshold |-> t.energy_threshold])] >>
    /\ UNCHANGED <<dictionary, artifact_cache, related, res, disk, fingerprint_cache, bit_array,
                   items, artifacts, invariants, depends, constrains>>

\* the queue is empty: spread returns the energies
SpreadReturn ==
    /\ pending # <<>> /\ pending[1].pc = "spread" /\ pending[1].queue = <<>>
    /\ res' = [op |-> "spread", seed |-> pending[1].seed, max_depth |-> pending[1].max_depth,
               energy_threshold |-> pending[1].energy_threshold,
               energies |-> pending[1].energies, expanded |-> pending[1].expanded]
    /\ pending' = <<>>
    /\ UNCHANGED <<dictionary, artifact_cache, related, disk, fingerprint_cache, bit_array,
                   items, artifacts, invariants, depends, constrains>>

SpreadIds == {ArtifactId(1), ArtifactId(1) + 1, ArtifactId(1) + 2}

\* a self-loop, a cycle through all three artifacts and a shortcut across it
SpreadEdges ==
    LET a == ArtifactId(1)
    IN {<<a, a>>, <<a, a + 1>>, <<a + 1, a + 2>>, <<a + 2, a>>, <<a, a + 2>>}

\* a store with three artifacts, any of these DEPENDS_ON edges among them,
\* and possibly an invariant that constrains one of them
SpreadInit ==
    /\ bit_array = [b \in 0..(SizeBytes - 1) |-> {}]
    /\ items = {}
    /\ res = NoResult
    /\ pending = <<>>
    /\ disk = NoSnapshot
    /\ fingerprint_cache = [e \in {} |-> 0]
    /\ artifact_cache = [e \in {} |-> 0]
    /\ related = [e \in {} |-> 0]
    /\ dictionary = NoLearning
    /\ artifacts = {NodeProps(id) : id \in SpreadIds}
    /\ \E edges \in SUBSET SpreadEdges :
           depends = [e \in edges |-> 1]
    /\ \/ invariants = {} /\ constrains = [e \in {} |-> 0]
       \/ /\ invariants = {InvariantId(1)}
          /\ constrains = [e \in {<<InvariantId(1), ArtifactId(1)>>} |-> 1]

SpreadNext ==
    \/ \E seed \in SpreadIds \cup {InvariantId(1)}, max_depth \in {0, 1, DefaultSpreadDepth},
          energy_threshold \in {DefaultThreshold, 6000}, decay_factor \in {DefaultDecay, 100} :
           SpreadBegin(seed, max_depth, energy_threshold, decay_factor)
    \/ SpreadStep
    \/ SpreadReturn

\* a call that was entered goes on running: the loop is no task that waits
SpecSpread == SpreadInit /\ [][SpreadNext]_vars /\ WF_vars(SpreadStep) /\ WF_vars(SpreadReturn)

(***************************************************************************)
(* fingerprint_artifact and the ASTFingerprintCache                        *)
(***************************************************************************)
\* hash_file_ast(code, parser): the structure hash of the parsed tree, the
\* content hash when there is no parser or parsing raises
HashFileAst(code, parser) ==
    IF parser = "ok" THEN HashAstStructure(ParseTree(code)) ELSE Sha256(code)

\* cache.get(artifact_id) gave a value that counts as true
CacheHit(cache, artifact_id) ==
    artifact_id \in DOMAIN cache /\ cache[artifact_id] # EmptyString

\* fingerprint_artifact(code, parser, cache, artifact_id) with a cache and an id
FingerprintArtifact(code, parser, artifact_id) ==
    /\ IF CacheHit(fingerprint_cache, artifact_id)
       THEN /\ res' = [op |-> "fingerprint_artifact", code |-> code, parser |-> parser,
                       artifact_id |-> artifact_id,
                       fingerprint |-> fingerprint_cache[artifact_id]]
            /\ fingerprint_cache' = fingerprint_cache
       ELSE /\ res' = [op |-> "fingerprint_artifact", code |-> code, parser |-> parser,
                       artifact_id |-> artifact_id, fingerprint |-> HashFileAst(code, parser)]
            /\ fingerprint_cache' =
                   [k \in DOMAIN fingerprint_cache \cup {artifact_id} |->
                        IF k = artifact_id THEN HashFileAst(code, parser)
                        ELSE fingerprint_cache[k]]
    /\ UNCHANGED <<dictionary, artifact_cache, related, pending, disk, bit_array, items,
                   artifacts, invariants, depends, constrains>>

\* ASTFingerprintCache.invalidate(file_path)
CacheInvalidate(file_path) ==
    /\ fingerprint_cache' = [k \in DOMAIN fingerprint_cache \ {file_path} |-> fingerprint_cache[k]]
    /\ res' = [op |-> "cache.invalidate", file_path |-> file_path]
    /\ UNCHANGED <<dictionary, artifact_cache, related, pending, disk, bit_array, items,
                   artifacts, invariants, depends, constrains>>

\* ASTFingerprintCache.clear()
CacheClear ==
    /\ fingerprint_cache' = [k \in {} |-> 0]
    /\ res' = [op |-> "cache.clear"]
    /\ UNCHANGED <<dictionary, artifact_cache, related, pending, disk, bit_array, items,
                   artifacts, invariants, depends, constrains>>

\* the source texts of at most one declaration
ShortSources == {code \in Sources : Len(code) <= 1}

CacheNext ==
    \/ \E code \in ShortSources, parser \in {"ok", "unavailable"}, artifact_id \in IngestIds :
           FingerprintArtifact(code, parser, artifact_id)
    \/ \E artifact_id \in IngestIds : CacheInvalidate(artifact_id)
    \/ CacheClear

SpecCache == Init /\ [][CacheNext]_vars

(***************************************************************************)
(* Properties                                                              *)
(***************************************************************************)
\* C1: after any sequence of add and add_batch calls, contains(x) is true for
\* every item x that was ever added (no false negatives).
C1_NoFalseNegatives == \A x \in items : Contains(bit_array, x)

\* C1 witness: several items were added, through add_batch among others, and
\* the filter still rejects some item that was never added.
C1_Witness ==
    /\ res.op = "add_batch"
    /\ Cardinality(items) >= 3
    /\ \E y \in BloomItems \ items : ~Contains(bit_array, y)

\* C2: in every state reached through ingest_file and ingest_batch, the id of
\* every artifact node of the graph is contained in the Bloom filter the query
\* interface probes, and query_artifact on such an id reports bloom_hit=true.
C2_GraphIdsInBloom ==
    /\ \A n \in artifacts : Contains(bit_array, n.id)
    /\ (res.op = "query_artifact" /\ res.artifact_id \in NodeIds(artifacts)) => res.bloom_hit

\* C3: ingesting a path again with the bytes it was just ingested with succeeds
\* and leaves the graph as it was: the same nodes and the same edges.
C3_ReingestIsNoOp ==
    [][(/\ res.op = "ingest_file"
        /\ res.status = "success"
        /\ IngestFile(res.path, res.content))
       => (/\ res'.status = "success"
           /\ artifacts' = artifacts
           /\ invariants' = invariants
           /\ depends' = depends
           /\ constrains' = constrains)]_vars

\* C4: after any sequence of ingests at most one artifact node carries a given
\* path (the node of the bytes a path held before is deleted on re-ingest).
C4_OneNodePerPath == \A a \in artifacts, b \in artifacts : a.path = b.path => a = b

\* C5: every readable file ingested at a supported path has its own artifact
\* node, also when another path holds the same bytes: after ingest_file(p) the
\* graph holds a node for path p with the hash of p's bytes, and the nodes of
\* different paths have different ids.
C5_NodePerPath ==
    /\ (res.op = "ingest_file" /\ res.path # UnsupportedPath /\ res.content # NoFile)
           => \E n \in artifacts : n.path = res.path /\ n.content_hash = ContentHash(res.content)
    /\ \A a \in artifacts, b \in artifacts : a.path # b.path => a.id # b.id

\* C6: after a successful ingest_file there is a DEPENDS_ON edge from the new
\* artifact to every artifact its imports resolve to, and the dependency count
\* of the report is the number of DEPENDS_ON edges that leave the new artifact.
C6_DependsOnWritten ==
    (res.op = "ingest_file" /\ res.status = "success") =>
        /\ \A t \in ResolvedTargets(res.content, artifacts) :
               <<ArtifactId(res.content), t>> \in DOMAIN depends
        /\ res.dependencies =
               Cardinality({e \in DOMAIN depends : e[1] = ArtifactId(res.content)})

RECURSIVE ReachWithin(_, _, _, _)
\* there is a DEPENDS_ON path of 1 to d edges from a to x
ReachWithin(bag, a, x, d) ==
    /\ d >= 1
    /\ \/ <<a, x>> \in DOMAIN bag
       \/ \E e \in DOMAIN bag : e[1] = a /\ ReachWithin(bag, e[2], x, d - 1)

Reachable(bag, a, d) == {x \in {e[2] : e \in DOMAIN bag} : ReachWithin(bag, a, x, d)}

\* a query with include_dependencies=true that found its artifact
IsDependencyQuery ==
    /\ res.op = "query_artifact"
    /\ res.outcome = "returned"
    /\ res.include_dependencies
    /\ res.bloom_hit
    /\ res.artifact_id \in NodeIds(artifacts)

\* C7: for query(id, include_deps=true, max_depth=d) on an existing artifact the
\* dependency list holds distinct artifact ids, each reachable from id by a
\* DEPENDS_ON path of 1 to d edges; it holds all of them when they are at most
\* 50 and never more than 50 ids; with d=1 its ids are direct dependencies (all
\* of them, within the cap); dependencies_found is the length of the list.
C7_DependencyList ==
    IsDependencyQuery =>
        LET deps == res.dependencies
            reach == Reachable(depends, res.artifact_id, res.max_depth)
            direct == {e[2] : e \in {x \in DOMAIN depends : x[1] = res.artifact_id}}
        IN /\ \A i \in DOMAIN deps, j \in DOMAIN deps : deps[i] = deps[j] => i = j
           /\ Range(deps) \subseteq reach
           /\ Range(deps) \subseteq NodeIds(artifacts)
           /\ Cardinality(reach) <= DepLimit => Range(deps) = reach
           /\ Len(deps) <= DepLimit
           /\ Cardinality(reach) > DepLimit => Len(deps) = DepLimit
           /\ res.max_depth = 1 => Range(deps) \subseteq direct
           /\ (res.max_depth = 1 /\ Cardinality(direct) <= DepLimit) => Range(deps) = direct
           /\ res.dependencies_found = Len(deps)

\* C7 witness: a query whose artifact has more than 50 direct dependencies
\* returned 50 of them.
C7_Witness ==
    /\ IsDependencyQuery
    /\ res.dependencies_found = DepLimit
    /\ Cardinality(Reachable(depends, res.artifact_id, res.max_depth)) > DepLimit

C9_NodeAbsent ==
    (/\ res.op = "query_artifact"
     /\ Contains(bit_array, res.artifact_id)
     /\ res.artifact_id \notin NodeIds(artifacts)) =>
        /\ res.outcome = "returned"
        /\ res.bloom_hit
        /\ res.files_parsed = 0
        /\ res.dependencies_found = 0
        /\ res.toon_format = << [line |-> "# Artifact node not found", id |-> res.artifact_id] >>
        /\ res.calls = <<"bloom.contains", "get_node">>

\* C9 witness: a false positive of the filter (the id was never added, the
\* filter contains it, no node has it) queried with its dependencies.
C9_Witness ==
    /\ res.op = "query_artifact"
    /\ res.artifact_id \notin items
    /\ Contains(bit_array, res.artifact_id)
    /\ res.artifact_id \notin NodeIds(artifacts)
    /\ res.include_dependencies
    /\ res.max_depth \in MinDepth..MaxDepth

\* C10: a query with an empty artifact id or a max_depth outside 1..5 is
\* rejected with a validation error before any Bloom probe or graph access, and
\* no max_depth in 1..5 is rejected; this for the query interface and the MCP
\* tool alike.
C10_Validation ==
    res.op \in {"query_artifact", "mcp_query_artifact"} =>
        IF res.artifact_id = EmptyId \/ res.max_depth \notin MinDepth..MaxDepth
        THEN res.outcome = "raised" /\ res.error = "ValueError" /\ res.calls = <<>>
        ELSE res.error # "ValueError"

\* C11: when a query returns, every dependency it reports (the ids counted in
\* dependencies_found, and the nodes behind the dependency sections of its
\* bundle) is an artifact whose node is in the graph, whatever writes came
\* between its traversal and its node fetches.
C11_ReportedDependenciesExist ==
    [][(pending # <<>> /\ pending' = <<>> /\ res'.op = "query_artifact")
        => /\ Range(res'.dependencies) \subseteq NodeIds(artifacts')
           /\ res'.dependencies_found = Len(Sections(res'.toon_format)) - 1]_vars

\* C12: create_edge adds one edge when both its nodes exist and otherwise adds
\* nothing and returns without an error, so every DEPENDS_ON edge joins two
\* artifacts that were in the graph when it was created.
C12_EdgeNeedsBothNodes ==
    /\ [](\A e \in DOMAIN depends : {e[1], e[2]} \subseteq NodeIds(artifacts))
    /\ [][res'.op = "create_edge"
            => /\ res'.status = "returned"
               /\ depends' = IF {res'.src, res'.dst} \subseteq NodeIds(artifacts)
                             THEN AddEdge(depends, <<res'.src, res'.dst>>)
                             ELSE depends]_vars

\* C12 witness: create_edge was called with a missing end after an edge had
\* been created, and the edge it asked for is not in the table.
C12_Witness ==
    /\ res.op = "create_edge"
    /\ res.src \in NodeIds(artifacts)
    /\ res.dst \notin NodeIds(artifacts)
    /\ <<res.src, res.dst>> \notin DOMAIN depends
    /\ TotalEdges(depends) > 0

\* C13: a query (query_artifact, query_multiple_artifacts, explain_artifact,
\* find_similar_artifacts) leaves the graph's nodes and edges, the Bloom
\* filter's bits and the fingerprint cache as they were.
C13_QueriesDoNotWrite ==
    [][res'.op \in {"query_artifact", "query_multiple_artifacts", "explain_artifact",
                    "find_similar_artifacts"}
        => /\ artifacts' = artifacts /\ invariants' = invariants
           /\ depends' = depends /\ constrains' = constrains
           /\ bit_array' = bit_array /\ items' = items
           /\ fingerprint_cache' = fingerprint_cache]_vars

\* C13 witness: find_similar_artifacts returned a match while the graph has
\* an edge, the filter has bits set and the cache has an entry.
C13_Witness ==
    /\ res.op = "find_similar_artifacts"
    /\ res.ids # <<>>
    /\ TotalEdges(depends) > 0
    /\ items # {}
    /\ DOMAIN fingerprint_cache # {}

\* C14: find_similar_artifacts(id, limit) returns at most limit ids, each the
\* id of a node other than the reference whose stored fingerprint equals the
\* reference's, and returns the empty list, without an error, when the
\* reference has no node or no fingerprint.
C14_SimilarAreExactMatches ==
    res.op = "find_similar_artifacts" =>
        /\ res.outcome = "returned"
        /\ Len(res.ids) <= res.limit
        /\ \A x \in Range(res.ids) :
              /\ x # res.artifact_id
              /\ x \in NodeIds(artifacts)
              /\ res.artifact_id \in NodeIds(artifacts)
              /\ GetNode(artifacts, x).ast_fingerprint
                     = GetNode(artifacts, res.artifact_id).ast_fingerprint
        /\ (res.artifact_id \notin NodeIds(artifacts) => res.ids = <<>>)
        /\ (\A n \in artifacts : n.id = res.artifact_id /\ n.ast_fingerprint = EmptyFingerprint
                                    => res.ids = <<>>)

\* C14 witness: the reference has more matches than the limit, and the list
\* returned is as long as the limit.
C14_Witness ==
    /\ res.op = "find_similar_artifacts"
    /\ Len(res.ids) = res.limit
    /\ \E x \in NodeIds(artifacts) \ (Range(res.ids) \cup {res.artifact_id}) :
          GetNode(artifacts, x).ast_fingerprint
              = GetNode(artifacts, res.artifact_id).ast_fingerprint

\* C15: two files that differ only in the order of their sibling declarations
\* are given the same ast_fingerprint when they are ingested.
C15_OrderIndependentFingerprint ==
    [][(res.op = "compute_fingerprint" /\ res'.op = "compute_fingerprint"
            /\ SameDeclarations(res.content, res'.content))
        => res'.ast_fingerprint = res.ast_fingerprint]_vars

\* C16: parse_file_v2 and parse_code_v2 always return a fingerprint of 64 hex
\* digits: the structural hash with parse_success on success, and the SHA-256
\* of the source with parse_success false in every failure case.
C16_FingerprintAlwaysDigest ==
    res.op \in {"parse_code_v2", "parse_file_v2"} =>
        /\ res.parsed.ast_fingerprint.hexdigits = 64
        /\ (res.readable /\ res.parser = "ok") =>
               /\ res.parsed.parse_success
               /\ res.parsed.ast_fingerprint = HashAstStructure(ParseTree(res.code))
        /\ (res.readable /\ res.parser # "ok") =>
               /\ ~res.parsed.parse_success
               /\ res.parsed.ast_fingerprint = Sha256(res.code)
        /\ ~res.readable => ~res.parsed.parse_success

\* C17: a filter saved and then loaded has the parameters and the bit array
\* of the saved filter, and contains answers the same on every id.
C17_SaveLoadRoundTrip ==
    [][(res.op = "save" /\ res'.op = "load")
        => /\ res'.outcome = "returned"
           /\ \A field \in {"expected_items", "false_positive_rate", "size_bits",
                            "size_bytes", "num_hashes", "hash_seeds", "bit_array"} :
                  res'.filter[field] = res.filter[field]
           /\ \A id \in BloomItems :
                  FilterContains(res'.filter, id) = Contains(bit_array, id)]_vars

\* C17 witness: a filter holding an id was saved and loaded, and the loaded
\* filter has the id while the empty filter would not.
C17_Witness ==
    /\ res.op = "load"
    /\ res.data = Pickle(LiveFilter)
    /\ \E id \in items : FilterContains(res.filter, id)
    /\ \E id \in BloomItems : ~FilterContains(res.filter, id)

\* C18: union and intersection succeed exactly when the two filters have the
\* same bit count, hash count and hash seeds, and raise otherwise; the result
\* of a union contains every item added to either operand.
C18_CombineNeedsSameParameters ==
    res.op \in {"union", "intersection"} =>
        /\ res.call.outcome = "returned"
               <=> /\ res.self.size_bits = res.other.size_bits
                   /\ res.self.num_hashes = res.other.num_hashes
                   /\ res.self.hash_seeds = res.other.hash_seeds
        /\ (res.op = "union" /\ res.call.outcome = "returned")
               => \A item \in res.self.items \cup res.other.items :
                      FilterContains(res.call.result, item)

\* C19: loading a snapshot whose stored parameters disagree with each other
\* or with the configured filter is rejected with an error.
C19_MismatchedSnapshotRejected ==
    (res.op = "load" /\ (~Consistent(res.data)
                          \/ res.data.size_bits # SizeBits
                          \/ res.data.num_hashes # NumHashes
                          \/ res.data.hash_seeds # hash_seeds))
        => res.outcome = "raised"

\* C20: ingests that run at the same time behave as if they ran one after the
\* other: a path keeps the node of the later ingest only, and once the adds
\* have returned the filter contains every id added, no bit update being lost.
C20_ConcurrentAsSerial ==
    /\ \A a \in artifacts, b \in artifacts : a.path = b.path => a = b
    /\ pending = <<>> => \A id \in items : Contains(bit_array, id)

\* C21: resolve never returns the id of an artifact that was deleted from the
\* graph: an id it returns for a path is the id of a node stored under it.
C21_ResolveAfterDelete ==
    (res.op = "resolve" /\ res.id # -1)
        => \E a \in artifacts : a.id = res.id /\ a.path = res.path

\* C22: ingest_batch is never aborted by a failure on one file or one commit:
\* the call returns its statistics, counts at least the unreadable files in
\* errors, and every readable file of a supported type has its artifact node
C22_BatchNeverAborted ==
    res.op = "ingest_batch_store" =>
        /\ res.outcome = "returned"
        /\ res.stats.errors >= Cardinality({i \in DOMAIN res.files : res.files[i].content = NoFile})
        /\ \A i \in DOMAIN res.files :
               (res.files[i].content # NoFile /\ res.files[i].path # UnsupportedPath)
                   => \E a \in artifacts : a.id = ArtifactId(res.files[i].content)

\* C30: when ingest_batch returns, no file was counted twice (processed plus
\* errors is at most the number of files) and the artifacts statistic is the
\* number of artifact nodes the call created
C30_StatsCountWhatHappened ==
    (res.op = "ingest_batch_store" /\ res.outcome = "returned") =>
        /\ res.stats.processed + res.stats.errors <= Len(res.files)
        /\ res.stats.artifacts = res.created

\* an identifier as the TOON grammar wants it: ':' and newlines replaced by '?'
Sanitized(text) == [i \in DOMAIN text |-> IF text[i] \in {":", "\n"} THEN "?" ELSE text[i]]

\* C23: emission never raises, and in the emitted lines a missing name or an
\* identifier with ':' or a newline appears as '?': the line of every function
\* entry is the line of the entry with its name sanitized
C23_EmissionNeverRaises ==
    res.op \in {"to_toon", "encode_graph_context"} =>
        /\ res.out.raised = "no"
        /\ \A i \in DOMAIN res.summary.functions :
               \E k \in DOMAIN res.out.lines :
                   res.out.lines[k] =
                       FunctionLines([name |-> Sanitized(Get(res.summary.functions[i], "name", <<"?">>)),
                                      parameters |-> Get(res.summary.functions[i], "parameters", <<>>),
                                      return_type |-> Get(res.summary.functions[i], "return_type", <<"None">>)])[1]

\* C24: decompress(compress(text)) is the text, for the default dictionary
\* and for every dictionary extended by learn_from_code
C24_DictionaryRoundTrip ==
    res.op = "round_trip" => (res.raised = "no" /\ res.out = res.text)

\* C25: decode_delta(base, encode_delta(base, target)) is the target, for
\* identical strings, strings of one length and strings of different lengths
C25_DeltaRoundTrip ==
    res.op = "delta_round_trip" =>
        (res.decoded.raised = "no" /\ res.decoded.text = res.target)

\* C26: after any sequence of reinforce_coactivation and punish_mistake calls
\* every RELATED_TO weight is within [0, 1]; a reinforced pair has its old
\* weight (0 without an edge) plus the learning rate, capped at 1.0; a
\* punished edge has its old weight less the penalty, and is gone when that
\* is below the removal threshold
C26_WeightsWithinUnitInterval ==
    /\ \A e \in DOMAIN related : related[e] >= 0 /\ related[e] <= MaxWeight
    /\ res.op = "reinforce_coactivation" =>
           \A a \in res.nodes, b \in res.nodes :
               a < b => /\ <<a, b>> \in DOMAIN related
                        /\ \/ related[<<a, b>>] = GetEdgeWeight(res.before, a, b) + res.amount
                           \/ related[<<a, b>>] = MaxWeight
    /\ (res.op = "punish_mistake" /\ <<res.src, res.dst>> \in DOMAIN res.before) =>
           /\ res.before[<<res.src, res.dst>>] - res.amount < RemoveBelow
                  => <<res.src, res.dst>> \notin DOMAIN related
           /\ <<res.src, res.dst>> \in DOMAIN related
                  => related[<<res.src, res.dst>>] = res.before[<<res.src, res.dst>>] - res.amount

\* C26 as amended: the same, with the punishment rule for an edge of
\* positive weight; an edge of weight 0 (made by a reinforcement with
\* learning rate 0) is left as it is by a punishment
C26_WeightsWithinUnitIntervalAmended ==
    /\ \A e \in DOMAIN related : related[e] >= 0 /\ related[e] <= MaxWeight
    /\ res.op = "reinforce_coactivation" =>
           \A a \in res.nodes, b \in res.nodes :
               a < b => /\ <<a, b>> \in DOMAIN related
                        /\ \/ related[<<a, b>>] = GetEdgeWeight(res.before, a, b) + res.amount
                           \/ related[<<a, b>>] = MaxWeight
    /\ (res.op = "punish_mistake" /\ GetEdgeWeight(res.before, res.src, res.dst) > 0) =>
           /\ res.before[<<res.src, res.dst>>] - res.amount < RemoveBelow
                  => <<res.src, res.dst>> \notin DOMAIN related
           /\ <<res.src, res.dst>> \in DOMAIN related
                  => related[<<res.src, res.dst>>] = res.before[<<res.src, res.dst>>] - res.amount
    /\ (res.op = "punish_mistake" /\ GetEdgeWeight(res.before, res.src, res.dst) = 0) =>
           related = res.before

\* a reinforcement of an edge that was punished before runs into the cap
C26_Witness ==
    /\ res.op = "reinforce_coactivation"
    /\ \E e \in DOMAIN related :
           /\ related[e] = MaxWeight
           /\ GetEdgeWeight(res.before, e[1], e[2]) + res.amount > MaxWeight
           /\ GetEdgeWeight(res.before, e[1], e[2]) \in {70, 90}

\* the DEPENDS_ON and CONSTRAINS edges together
AllEdges == [e \in DOMAIN depends \cup DOMAIN constrains |-> 1]

C28_QueriedArtifactNotItsOwnDependency ==
    IsDependencyQuery =>
        /\ \A i \in DOMAIN res.dependencies : res.dependencies[i] # res.artifact_id
        /\ Len(SelectSeq(res.toon_format, LAMBDA l : l.line = "## dependency"))
               <= Cardinality(Range(res.dependencies) \ {res.artifact_id})

\* C29: fingerprint_artifact with a cache and an artifact id returns the
\* fingerprint of the code of that call, never the one cached for the
\* artifact's earlier content
C29_FingerprintOfPassedCode ==
    res.op = "fingerprint_artifact" => res.fingerprint = HashFileAst(res.code, res.parser)

====
